---- MODULE Spec2Model ----
(***************************************************************************)
(* A model of the gameplay core of first_bevy_game: the game-state machine *)
(* (CharacterSelection, InGame, StageUpgrade, GameOver, GameWin), the run  *)
(* resources (CurrentStage, PlayerUpgrades, DefeatedBoss, ShowWinScreen)   *)
(* and the InGame systems (movement, knockback, shooting, boss attacks,    *)
(* projectiles, collisions, outcome check).                                *)
(*                                                                         *)
(* Units.  f32 quantities are fixed-point integers:                        *)
(*   positions        1/100 px          (x = -35000 .. 35000)              *)
(*   velocities       1/10 px/s                                            *)
(*   times            ms                                                   *)
(*   unit vectors     1/1000 per component                                 *)
(*   multipliers      1/1000                                               *)
(*   Hp               hit points (all damage values are whole numbers)     *)
(* One frame of the Bevy app is: StateTransition (OnExit/OnEnter of a      *)
(* pending NextState), then Update.  Commands are deferred: they are       *)
(* queued by a system and applied at a sync point or at the end of the     *)
(* schedule.                                                               *)
(***************************************************************************)
EXTENDS Integers, Sequences, FiniteSets, TLC

VARIABLES
    state,              \* State<GameState>
    next_state,         \* NextState<GameState>: "Unchanged" or the pending state
    transitioned,       \* TRUE between this frame's StateTransition and its Update
    keys,               \* ButtonInput<KeyCode>: the keys held in the last frame
    current_stage,      \* CurrentStage.0
    player_upgrades,    \* PlayerUpgrades
    defeated_boss,      \* DefeatedBoss.boss_type: "None" or a BossType
    show_win_screen,    \* ShowWinScreen.0
    selected_index,     \* SelectedUpgradeIndex.0
    selected_character, \* SelectedCharacter
    pattern_registry,   \* BossPatternRegistry.patterns: stage number -> config
    players,            \* the entities with Player, in query order
    bosses,             \* the entities with Boss, in query order
    projectiles,        \* the entities with Projectile (player and boss projectiles)
    win_screens,        \* number of entities with GameWinScreen
    selected_character_index, \* SelectedCharacterIndex.0
    tick,               \* history: what the systems of the last Update did
    frames              \* frames spent in the current stay in InGame (bounded)

vars == <<state, next_state, transitioned, keys, current_stage, player_upgrades,
          defeated_boss, show_win_screen, selected_index, selected_character,
          pattern_registry, players, bosses, projectiles, win_screens,
          selected_character_index, tick, frames>>

----------------------------------------------------------------------------
(* Bounds of the model *)

\* Frames explored in one stay in InGame.
MaxFrames == 10

\* The frame time Time::delta_secs(), in ms.
DT == 100

----------------------------------------------------------------------------
(* systems/config.rs *)

MAX_STAGES == 2
BOUNDARY_LEFT == -35000
BOUNDARY_RIGHT == 35000
BOUNDARY_TOP == 20000
BOUNDARY_BOTTOM == -19800
KNOCKBACK_FORCE == 700
KNOCKBACK_DURATION == 700
KNOCKBACK_DECAY_RATE == 900
KNOCKBACK_MOVEMENT_REDUCTION == 300
INVINCIBILITY_DURATION == 700
SMALL_JUMP_CHARGE_RATIO == 430

\* Constants that systems/player.rs and stages/game_menu.rs import from
\* systems/config.rs but whose definitions are not part of the sources at hand.
\* HP_RESTORATION_AMOUNT follows the upgrade button's text ("+25 HP");
\* CHARGE_SHOT_DAMAGE_MULTIPLIER follows the charge multiplier 3.0 of the
\* specification's charged-shot scenario.
HP_RESTORATION_AMOUNT == 25
BOSS_COLLISION_DAMAGE == 20
PLAYER_PROJECTILE_DAMAGE == 100
CHARGE_SHOT_DAMAGE_MULTIPLIER == 3000
CHARGE_SHOT_MAX_TIME == 300
CHARGE_SHOT_MIN_TIME == 200
CHARGE_SHOT_COOLDOWN == 400
NORMAL_SHOT_COOLDOWN == 200

(* constants local to the systems *)
SPEED == 200
DASH_SPEED == 400
DASH_DURATION == 200
BASE_GRAVITY == 800
GROUND_Y == -19800
HIGH_JUMP_STRENGTH == 6200
HIGH_JUMP_GRAVITY == 1200
SMALL_JUMP_STRENGTH == 3505
SMALL_JUMP_GRAVITY == 960
MAX_CHARGE_TIME == 200
PROJECTILE_SPEED == 500
BASE_DAMAGE == 15
PLAYER_SIZE == <<3200, 6400>>
BOSS_SIZE == <<3200, 6400>>
BASE_PROJECTILE_SIZE == <<1000, 1000>>
PROJECTILE_SIZE == <<1000, 1000>>

----------------------------------------------------------------------------
(* f32 helpers *)

Min(a, b) == IF a <= b THEN a ELSE b
Max(a, b) == IF a >= b THEN a ELSE b
Abs(a) == IF a < 0 THEN -a ELSE a
Sign(a) == IF a < 0 THEN -1 ELSE 1

\* f32::clamp
Clamp(v, lo, hi) == Max(lo, Min(v, hi))

\* Division rounding toward zero, the fixed-point stand-in for f32 rounding.
Quot(a, b) == IF a >= 0 THEN a \div b ELSE -((-a) \div b)

\* A timer that is only ever decremented and compared with 0 is kept at -DT
\* once it is below: the comparisons of the code cannot tell the difference.
Floor_Timer(t) == Max(t, -DT)

\* floor(sqrt(n)) by bisection on [lo, hi]
RECURSIVE ISqrtIn(_, _, _)
ISqrtIn(n, lo, hi) ==
    IF lo >= hi THEN lo
    ELSE LET mid == (lo + hi + 1) \div 2
         IN  IF mid * mid <= n THEN ISqrtIn(n, mid, hi) ELSE ISqrtIn(n, lo, mid - 1)

ISqrt(n) == ISqrtIn(n, 0, 2000)

\* Vec2::normalize_or_zero of a difference of positions (1/100 px), as a unit
\* vector in 1/1000.  The length is taken in whole px to stay within 32 bits.
NormalizeOrZero(dx, dy) ==
    LET px == Quot(dx, 100)
        py == Quot(dy, 100)
        len == ISqrt(px * px + py * py)
    IN  IF len = 0 THEN <<0, 0>> ELSE <<Quot(px * 1000, len), Quot(py * 1000, len)>>

----------------------------------------------------------------------------
(* Entities and resources *)

\* PlayerUpgrades::default
DefaultPlayerUpgrades ==
    [max_hp_bonus |-> 0, current_hp |-> 100, defense_multiplier |-> 1000,
     has_boss_weapon |-> FALSE, boss_weapon_type |-> "None"]

\* AttackPattern and MovementPattern values (one record shape for all variants)
AttackPattern(type, cooldown, projectile_speed, spread_angle) ==
    [type |-> type, cooldown |-> cooldown, projectile_speed |-> projectile_speed,
     spread_angle |-> spread_angle]
SingleShot(cooldown, projectile_speed) == AttackPattern("SingleShot", cooldown, projectile_speed, 0)
TripleShot(cooldown, projectile_speed, spread_angle) ==
    AttackPattern("TripleShot", cooldown, projectile_speed, spread_angle)
RapidFire(cooldown, projectile_speed, burst_count, burst_delay) ==
    [type |-> "RapidFire", cooldown |-> cooldown, projectile_speed |-> projectile_speed,
     burst_count |-> burst_count, burst_delay |-> burst_delay]
AttackNone == [type |-> "None"]
Stationary == [type |-> "Stationary"]
HorizontalPatrol(left_bound, right_bound, speed) ==
    [type |-> "HorizontalPatrol", left_bound |-> left_bound, right_bound |-> right_bound,
     speed |-> speed]
VerticalPatrol(top_bound, bottom_bound, speed) ==
    [type |-> "VerticalPatrol", top_bound |-> top_bound, bottom_bound |-> bottom_bound,
     speed |-> speed]
Circular(center, radius, speed) ==
    [type |-> "Circular", center |-> center, radius |-> radius, speed |-> speed]

\* The variants only a pattern file has (AttackPatternConfig::Sequence,
\* MovementPatternConfig::Waypoint); the other variants of a file are written
\* like the internal ones, with Vec2Config {x, y} as a record
Sequence(actions, loop_pattern) ==
    [type |-> "Sequence", actions |-> actions, loop_pattern |-> loop_pattern]
Waypoint(waypoints, speed, loop_path) ==
    [type |-> "Waypoint", waypoints |-> waypoints, speed |-> speed, loop_path |-> loop_path]

\* A Sequence that is converted to the default attack (the variant C20 excludes)
convert_attack_pattern_SequenceShoots(config) ==
    CASE config.type = "None" -> AttackNone
      [] config.type = "SingleShot" -> SingleShot(config.cooldown, config.projectile_speed)
      [] config.type = "TripleShot" ->
            TripleShot(config.cooldown, config.projectile_speed, config.spread_angle)
      [] config.type = "RapidFire" ->
            RapidFire(config.cooldown, config.projectile_speed, config.burst_count,
                      config.burst_delay)
      [] config.type = "Sequence" -> SingleShot(2000, 300)

\* convert_attack_pattern: file variant to internal variant
convert_attack_pattern(config) ==
    CASE config.type = "None" -> AttackNone
      [] config.type = "SingleShot" -> SingleShot(config.cooldown, config.projectile_speed)
      [] config.type = "TripleShot" ->
            TripleShot(config.cooldown, config.projectile_speed, config.spread_angle)
      [] config.type = "RapidFire" ->
            RapidFire(config.cooldown, config.projectile_speed, config.burst_count,
                      config.burst_delay)
      [] config.type = "Sequence" -> AttackNone

\* convert_movement_pattern; center.clone().into() makes the Vec2 <<x, y>>
convert_movement_pattern(config) ==
    CASE config.type = "Stationary" -> Stationary
      [] config.type = "HorizontalPatrol" ->
            HorizontalPatrol(config.left_bound, config.right_bound, config.speed)
      [] config.type = "VerticalPatrol" ->
            VerticalPatrol(config.top_bound, config.bottom_bound, config.speed)
      [] config.type = "Circular" ->
            Circular(<<config.center.x, config.center.y>>, config.radius, config.speed)
      [] config.type = "Waypoint" -> Stationary

\* AttackPattern::default, MovementPattern::default and the BossRegistry entry
DefaultAttackPattern == SingleShot(2000, 300)
DefaultMovementPattern == Stationary

\* The player bundle of spawn_player_and_level.  A component that can be absent
\* (Dash, Invincibility, Knockback) is a has_ flag with its fields.
SpawnedPlayer(upgrades) ==
    LET base_max_hp == 100
        max_hp == base_max_hp + upgrades.max_hp_bonus
        current_hp == Min(upgrades.current_hp, max_hp)
    IN  [x |-> 0, y |-> -19800, hp |-> current_hp, max |-> max_hp,
         vy |-> 0, jump_type |-> "None", fx |-> 1000, fy |-> 0,
         jc_timer |-> 0, jc_charging |-> FALSE,
         shoot_timer |-> 0, cs_timer |-> 0, cs_charging |-> FALSE,
         has_dash |-> FALSE, dash_timer |-> 0, dash_dir |-> 0,
         has_inv |-> FALSE, inv_timer |-> 0,
         has_kb |-> FALSE, kb_vx |-> 0, kb_vy |-> 0, kb_timer |-> 0]

\* The boss bundle of spawn_boss: the registry's Default boss, its patterns
\* replaced by the converted patterns of "stage_N" when the pattern registry
\* (stage number to BossPatternConfig) has them.
SpawnedBoss(registry, stage) ==
    LET loaded == stage \in DOMAIN registry
    IN  [x |-> 30000, y |-> -19800, hp |-> 200, max |-> 200, boss_type |-> "Default",
         attack |-> IF loaded THEN convert_attack_pattern(registry[stage].attack)
                    ELSE DefaultAttackPattern,
         movement |-> IF loaded THEN convert_movement_pattern(registry[stage].movement)
                      ELSE DefaultMovementPattern,
         timer |-> 0, burst_count |-> 0, burst_timer |-> 0,
         direction |-> 1, current_angle |-> 0,
         has_kb |-> FALSE, kb_vx |-> 0, kb_vy |-> 0, kb_timer |-> 0]

\* A Projectile entity; boss says whether it also carries BossProjectile{speed}.
NewProjectile(x, y, dx, dy, charge_level, boss, speed) ==
    [x |-> x, y |-> y, dx |-> dx, dy |-> dy, charge_level |-> charge_level,
     boss |-> boss, speed |-> speed, has_hit |-> FALSE]

NoProjectile == NewProjectile(0, 0, 0, 0, 0, FALSE, 0)

\* A queued command.  idx is the target's place in its query.
Cmd(op, idx, a, b, c) == [op |-> op, idx |-> idx, a |-> a, b |-> b, c |-> c, proj |-> NoProjectile]
SpawnCmd(proj) == [op |-> "spawn_projectile", idx |-> 0, a |-> 0, b |-> 0, c |-> 0, proj |-> proj]

\* The elements of s at the places in keep, in order
SelectIdx(s, keep) ==
    LET F[i \in 0..Len(s)] ==
            IF i = 0 THEN <<>> ELSE IF i \in keep THEN Append(F[i - 1], s[i]) ELSE F[i - 1]
    IN  F[Len(s)]

\* Commands::apply of one command on the entity stores.  dead is the set of
\* projectile places despawned so far in this flush and twice those despawned
\* again; a despawn or an insert on an entity that is gone changes nothing.
ApplyCmd(st, c) ==
    CASE c.op = "insert_dash" ->
            [st EXCEPT !.players[c.idx].has_dash = TRUE,
                       !.players[c.idx].dash_timer = c.a, !.players[c.idx].dash_dir = c.b]
      [] c.op = "remove_dash" ->
            [st EXCEPT !.players[c.idx].has_dash = FALSE,
                       !.players[c.idx].dash_timer = 0, !.players[c.idx].dash_dir = 0]
      [] c.op = "insert_inv" ->
            [st EXCEPT !.players[c.idx].has_inv = TRUE, !.players[c.idx].inv_timer = c.a]
      [] c.op = "remove_inv" ->
            [st EXCEPT !.players[c.idx].has_inv = FALSE, !.players[c.idx].inv_timer = 0]
      [] c.op = "insert_kb" ->
            [st EXCEPT !.players[c.idx].has_kb = TRUE, !.players[c.idx].kb_vx = c.a,
                       !.players[c.idx].kb_vy = c.b, !.players[c.idx].kb_timer = c.c]
      [] c.op = "remove_kb" ->
            [st EXCEPT !.players[c.idx].has_kb = FALSE, !.players[c.idx].kb_vx = 0,
                       !.players[c.idx].kb_vy = 0, !.players[c.idx].kb_timer = 0]
      [] c.op = "insert_boss_kb" ->
            [st EXCEPT !.bosses[c.idx].has_kb = TRUE, !.bosses[c.idx].kb_vx = c.a,
                       !.bosses[c.idx].kb_vy = c.b, !.bosses[c.idx].kb_timer = c.c]
      [] c.op = "insert_has_hit" ->
            IF c.idx \in st.dead THEN st
            ELSE [st EXCEPT !.projectiles[c.idx].has_hit = TRUE]
      [] c.op = "despawn_projectile" ->
            [st EXCEPT !.dead = @ \cup {c.idx},
                       !.twice = IF c.idx \in st.dead THEN @ \cup {c.idx} ELSE @]
      [] c.op = "spawn_projectile" ->
            [st EXCEPT !.spawned = Append(@, c.proj)]

RECURSIVE ApplyCmds(_, _, _)
ApplyCmds(st, cmds, i) ==
    IF i > Len(cmds) THEN st ELSE ApplyCmds(ApplyCmd(st, cmds[i]), cmds, i + 1)

\* ApplyDeferred: the sync point.  Every queued command is applied in queue
\* order; despawned projectiles leave the store, spawned ones join it.
ApplyDeferred(w) ==
    LET st0 == [players |-> w.players, bosses |-> w.bosses, projectiles |-> w.projectiles,
                dead |-> {}, twice |-> {}, spawned |-> <<>>]
        st == ApplyCmds(st0, w.cmds, 1)
    IN  [w EXCEPT !.players = st.players, !.bosses = st.bosses,
                  !.projectiles = SelectIdx(st.projectiles, (1..Len(st.projectiles)) \ st.dead)
                                      \o st.spawned,
                  !.twice = @ + Cardinality(st.twice),
                  !.cmds = <<>>]

----------------------------------------------------------------------------
(* The Update systems of InGame.  A system maps the world w (entity stores,   *)
(* resources, queued commands) and the frame's input to the world after it.   *)

JumpPressed(in) == "Space" \in in.pressed \/ "KeyX" \in in.pressed
JumpJustPressed(in) == "Space" \in in.just_pressed \/ "KeyX" \in in.just_pressed
JumpJustReleased(in) == "Space" \in in.just_released \/ "KeyX" \in in.just_released

\* A small jump also at the threshold itself (the variant C18 excludes)
IsSmallJump_Inclusive(charge_ratio) == charge_ratio <= SMALL_JUMP_CHARGE_RATIO

\* The jump of a release at this charge ratio is the small one
IsSmallJump(charge_ratio) == charge_ratio < SMALL_JUMP_CHARGE_RATIO

\* Vec2::normalize of the input direction, components in {-1, 0, 1}
NormalizeInput(dx, dy) ==
    IF dx # 0 /\ dy # 0 THEN <<707 * dx, 707 * dy>> ELSE <<1000 * dx, 1000 * dy>>

\* The body of player_movement's loop for the player at place i: the player
\* after it, the commands it queues, and whether it left through a return.
PlayerMovementBody(p, i, in) ==
    LET dir_x == (IF "ArrowRight" \in in.pressed THEN 1 ELSE 0)
                 - (IF "ArrowLeft" \in in.pressed THEN 1 ELSE 0)
        dir_y == IF "ArrowUp" \in in.pressed THEN 1 ELSE 0
        facing == IF dir_x # 0 \/ dir_y # 0 THEN NormalizeInput(dir_x, dir_y)
                  ELSE <<p.fx, p.fy>>
        p1 == [p EXCEPT !.fx = facing[1], !.fy = facing[2]]
    IN
    IF p1.has_dash THEN
        \* the dash branch: no clamp, no other movement
        LET timer == p1.dash_timer - DT
        IN  [p |-> [p1 EXCEPT !.x = @ + Quot(p1.dash_dir * DASH_SPEED * DT, 10000),
                              !.dash_timer = timer],
             cmds |-> IF timer <= 0 THEN <<Cmd("remove_dash", i, 0, 0, 0)>> ELSE <<>>,
             returned |-> TRUE]
    ELSE
        LET movement_speed == IF p1.has_kb
                              THEN Quot(SPEED * KNOCKBACK_MOVEMENT_REDUCTION, 1000)
                              ELSE SPEED
            x2 == Clamp(p1.x + Quot(dir_x * movement_speed * DT, 10),
                        BOUNDARY_LEFT, BOUNDARY_RIGHT)
            y2 == Clamp(p1.y, BOUNDARY_BOTTOM, BOUNDARY_TOP)
            p2 == [p1 EXCEPT !.x = x2, !.y = y2]
            is_on_ground == y2 <= GROUND_Y
        IN
        IF "ArrowDown" \in in.pressed /\ JumpJustPressed(in) /\ is_on_ground THEN
            [p |-> p2,
             cmds |-> <<Cmd("insert_dash", i, DASH_DURATION, p2.fx, 0)>>,
             returned |-> TRUE]
        ELSE
            LET \* start charging
                start == JumpJustPressed(in) /\ is_on_ground
                charging3 == start \/ p2.jc_charging
                timer3 == IF start THEN 0 ELSE p2.jc_timer
                \* charge while held; the timer is only read through
                \* clamp(timer / MAX_CHARGE_TIME, 0, 1), so it is kept at
                \* MAX_CHARGE_TIME once it is above
                timer4 == IF charging3 /\ JumpPressed(in) /\ is_on_ground
                          THEN Min(timer3 + DT, MAX_CHARGE_TIME) ELSE timer3
                release == JumpJustReleased(in) /\ charging3
                charge_ratio == Clamp(Quot(timer4 * 1000, MAX_CHARGE_TIME), 0, 1000)
                jump == release /\ is_on_ground
                small == IsSmallJump(charge_ratio)
                vy5 == IF jump THEN (IF small THEN SMALL_JUMP_STRENGTH ELSE HIGH_JUMP_STRENGTH)
                       ELSE p2.vy
                jt5 == IF jump THEN (IF small THEN "Small" ELSE "High") ELSE p2.jump_type
                current_gravity == CASE jt5 = "High" -> HIGH_JUMP_GRAVITY
                                     [] jt5 = "Small" -> SMALL_JUMP_GRAVITY
                                     [] OTHER -> BASE_GRAVITY
                vy6 == IF ~is_on_ground THEN vy5 - Quot(current_gravity * DT, 100) ELSE vy5
                y6 == y2 + Quot(vy6 * DT, 100)
                landed == y6 < GROUND_Y
            IN  [p |-> [p2 EXCEPT !.jc_charging = IF release THEN FALSE ELSE charging3,
                                  !.jc_timer = IF release THEN 0 ELSE timer4,
                                  !.y = IF landed THEN GROUND_Y ELSE y6,
                                  !.vy = IF landed THEN 0 ELSE vy6,
                                  !.jump_type = IF landed THEN "None" ELSE jt5],
                 cmds |-> <<>>,
                 returned |-> FALSE]

\* player_movement: the loop over the players; a return ends the system.
RECURSIVE PlayerMovementLoop(_, _, _)
PlayerMovementLoop(w, i, in) ==
    IF i > Len(w.players) THEN w
    ELSE LET r == PlayerMovementBody(w.players[i], i, in)
             w1 == [w EXCEPT !.players[i] = r.p, !.cmds = @ \o r.cmds]
         IN  IF r.returned THEN w1 ELSE PlayerMovementLoop(w1, i + 1, in)

player_movement(w, in) == PlayerMovementLoop(w, 1, in)

\* apply_knockback's loop body for the player at place i
ApplyKnockbackBody(p, i) ==
    LET x1 == Clamp(p.x + Quot(p.kb_vx * DT, 100), BOUNDARY_LEFT, BOUNDARY_RIGHT)
        y1 == Clamp(p.y + Quot(p.kb_vy * DT, 100), BOUNDARY_BOTTOM, BOUNDARY_TOP)
        timer == p.kb_timer - DT
    IN  [p |-> [p EXCEPT !.x = x1, !.y = y1,
                         !.kb_vx = Quot(@ * KNOCKBACK_DECAY_RATE, 1000),
                         !.kb_vy = Quot(@ * KNOCKBACK_DECAY_RATE, 1000),
                         !.kb_timer = timer],
         cmds |-> IF timer <= 0 THEN <<Cmd("remove_kb", i, 0, 0, 0)>> ELSE <<>>]

RECURSIVE ApplyKnockbackLoop(_, _)
ApplyKnockbackLoop(w, i) ==
    IF i > Len(w.players) THEN w
    ELSE IF ~w.players[i].has_kb THEN ApplyKnockbackLoop(w, i + 1)
    ELSE LET r == ApplyKnockbackBody(w.players[i], i)
         IN  ApplyKnockbackLoop([w EXCEPT !.players[i] = r.p, !.cmds = @ \o r.cmds], i + 1)

apply_knockback(w, in) == ApplyKnockbackLoop(w, 1)

\* A shot that goes left or right whenever the facing has a horizontal part
\* (the variant C28 excludes)
ShootDirection_HorizontalFirst(p) ==
    IF Abs(p.fx) > 0 THEN <<1000 * Sign(p.fx), 0>>
    ELSE IF p.fy > 0 THEN <<0, 1000>>
    ELSE <<1000, 0>>

\* get_shoot_direction of player_shooting: up beats left/right beats right
ShootDirection(p) ==
    IF p.fy > 0 THEN <<0, 1000>>
    ELSE IF Abs(p.fx) > 0 THEN <<1000 * Sign(p.fx), 0>>
    ELSE <<1000, 0>>

\* A shot that no cooldown holds back (the variant C21 excludes)
ShotGate_Open(timer) == TRUE

\* The cooldown gate of both weapons: shooting.timer <= 0.0
ShotGate(timer) == timer <= 0

\* player_shooting's loop body for the player at place i
PlayerShootingBody(p, in, is_breadman) ==
    LET timer0 == Floor_Timer(p.shoot_timer - DT)
        pressed == "KeyC" \in in.pressed
        just_pressed == "KeyC" \in in.just_pressed
        just_released == "KeyC" \in in.just_released
        dir == ShootDirection(p)
        can_shoot == dir[2] >= 0
    IN
    IF is_breadman THEN
        LET start == just_pressed /\ ShotGate(timer0)
            charging1 == start \/ p.cs_charging
            cs1 == IF start THEN 0 ELSE p.cs_timer
            cs2 == IF charging1 /\ pressed THEN Min(cs1 + DT, CHARGE_SHOT_MAX_TIME) ELSE cs1
            release == just_released /\ charging1
            fire == release /\ can_shoot
            charge_level == Clamp(Quot(cs2 * 1000, CHARGE_SHOT_MAX_TIME), 0, 1000)
            is_charged_shot == cs2 >= CHARGE_SHOT_MIN_TIME
        IN  [p |-> [p EXCEPT !.shoot_timer = IF fire
                                             THEN (IF is_charged_shot THEN CHARGE_SHOT_COOLDOWN
                                                   ELSE NORMAL_SHOT_COOLDOWN)
                                             ELSE timer0,
                             !.cs_charging = IF release THEN FALSE ELSE charging1,
                             !.cs_timer = IF release THEN 0 ELSE cs2],
             cmds |-> IF fire
                      THEN <<SpawnCmd(NewProjectile(p.x, p.y, dir[1], dir[2], charge_level,
                                                    FALSE, 0))>>
                      ELSE <<>>,
             charged |-> fire /\ is_charged_shot]
    ELSE
        LET fire == just_pressed /\ ShotGate(timer0) /\ can_shoot
        IN  [p |-> [p EXCEPT !.shoot_timer = IF fire THEN NORMAL_SHOT_COOLDOWN ELSE timer0,
                             !.cs_charging = FALSE, !.cs_timer = 0],
             cmds |-> IF fire
                      THEN <<SpawnCmd(NewProjectile(p.x, p.y, dir[1], dir[2], 0, FALSE, 0))>>
                      ELSE <<>>,
             charged |-> FALSE]

RECURSIVE PlayerShootingLoop(_, _, _)
PlayerShootingLoop(w, i, in) ==
    IF i > Len(w.players) THEN w
    ELSE LET r == PlayerShootingBody(w.players[i], in, w.selected_character = "Breadman")
         IN  PlayerShootingLoop([w EXCEPT !.players[i] = r.p, !.cmds = @ \o r.cmds,
                                          !.fired = @ + Len(r.cmds),
                                          !.spawned = @ \o
                                              [k \in 1..Len(r.cmds) |->
                                                 [direction |-> <<r.cmds[k].proj.dx,
                                                                  r.cmds[k].proj.dy>>,
                                                  charge_level |-> r.cmds[k].proj.charge_level]],
                                          !.charged = @ \/ r.charged], i + 1, in)

player_shooting(w, in) == PlayerShootingLoop(w, 1, in)

OutOfBounds(x, y) ==
    x < BOUNDARY_LEFT \/ x > BOUNDARY_RIGHT \/ y < BOUNDARY_BOTTOM \/ y > BOUNDARY_TOP

\* A projectile moved by direction * speed * dt
Moved(pr, speed) ==
    [pr EXCEPT !.x = @ + Quot(pr.dx * speed * DT, 10000),
               !.y = @ + Quot(pr.dy * speed * DT, 10000)]

\* A despawn command for each projectile place in gone, in query order
DespawnsOf(prs, gone) ==
    LET F[i \in 0..Len(prs)] ==
            IF i = 0 THEN <<>>
            ELSE IF i \in gone THEN Append(F[i - 1], Cmd("despawn_projectile", i, 0, 0, 0))
            ELSE F[i - 1]
    IN  F[Len(prs)]

\* projectile_movement: its query is every entity with Projectile, so the boss's
\* projectiles (Projectile + BossProjectile) are in it too.
projectile_movement(w, in) ==
    LET moved == [i \in 1..Len(w.projectiles) |-> Moved(w.projectiles[i], PROJECTILE_SPEED)]
    IN  [w EXCEPT !.projectiles = moved,
                  !.cmds = @ \o DespawnsOf(moved, {i \in 1..Len(moved) :
                                                     OutOfBounds(moved[i].x, moved[i].y)})]

\* boss_projectile_movement: the entities with Projectile and BossProjectile
boss_projectile_movement(w, in) ==
    LET moved == [i \in 1..Len(w.projectiles) |->
                    IF w.projectiles[i].boss
                    THEN Moved(w.projectiles[i], w.projectiles[i].speed)
                    ELSE w.projectiles[i]]
    IN  [w EXCEPT !.projectiles = moved,
                  !.cmds = @ \o DespawnsOf(moved, {i \in 1..Len(moved) :
                                                     moved[i].boss
                                                     /\ OutOfBounds(moved[i].x, moved[i].y)})]

\* cos and sin of an angle in 1/1000 rad, in 1/1000, to the quarter turn
CosRad(angle) == LET q == (angle \div 1570) % 4
                 IN  CASE q = 0 -> 1000 [] q = 1 -> 0 [] q = 2 -> -1000 [] q = 3 -> 0
SinRad(angle) == LET q == (angle \div 1570) % 4
                 IN  CASE q = 0 -> 0 [] q = 1 -> 1000 [] q = 2 -> 0 [] q = 3 -> -1000

\* boss_movement's loop body for one boss; the Stationary and Custom arms
\* leave the boss where it is.
BossMovementBody(b) ==
    LET m == b.movement
        cx == Clamp(b.x, BOUNDARY_LEFT, BOUNDARY_RIGHT)
        cy == Clamp(b.y, BOUNDARY_BOTTOM, BOUNDARY_TOP)
    IN  CASE m.type = "HorizontalPatrol" ->
               LET x1 == Clamp(b.x + Quot(b.direction * m.speed * DT, 10),
                               BOUNDARY_LEFT, BOUNDARY_RIGHT)
                   effective_left == Max(m.left_bound, BOUNDARY_LEFT)
                   effective_right == Min(m.right_bound, BOUNDARY_RIGHT)
               IN  IF x1 <= effective_left
                   THEN [b EXCEPT !.x = effective_left, !.y = cy, !.direction = 1]
                   ELSE IF x1 >= effective_right
                   THEN [b EXCEPT !.x = effective_right, !.y = cy, !.direction = -1]
                   ELSE [b EXCEPT !.x = x1, !.y = cy]
          [] m.type = "VerticalPatrol" ->
               LET y1 == Clamp(b.y + Quot(b.direction * m.speed * DT, 10),
                               BOUNDARY_BOTTOM, BOUNDARY_TOP)
                   effective_bottom == Max(m.bottom_bound, BOUNDARY_BOTTOM)
                   effective_top == Min(m.top_bound, BOUNDARY_TOP)
               IN  IF y1 <= effective_bottom
                   THEN [b EXCEPT !.x = cx, !.y = effective_bottom, !.direction = 1]
                   ELSE IF y1 >= effective_top
                   THEN [b EXCEPT !.x = cx, !.y = effective_top, !.direction = -1]
                   ELSE [b EXCEPT !.x = cx, !.y = y1]
          [] m.type = "Circular" ->
               LET angle == b.current_angle + Quot(m.speed * DT, 1000)
               IN  [b EXCEPT !.current_angle = angle,
                             !.x = Clamp(m.center[1] + Quot(m.radius * CosRad(angle), 1000),
                                         BOUNDARY_LEFT, BOUNDARY_RIGHT),
                             !.y = Clamp(m.center[2] + Quot(m.radius * SinRad(angle), 1000),
                                         BOUNDARY_BOTTOM, BOUNDARY_TOP)]
          [] OTHER -> b

boss_movement(w, in) == [w EXCEPT !.bosses = [j \in 1..Len(w.bosses) |-> BossMovementBody(w.bosses[j])]]

\* spawn_boss_projectile(position, velocity) with velocity = direction * speed:
\* Projectile{velocity.normalize_or_zero()}, BossProjectile{velocity.length()}
BossProjectileAt(b, dir, projectile_speed) ==
    IF dir = <<0, 0>> \/ projectile_speed = 0
    THEN NewProjectile(b.x, b.y, 0, 0, 0, TRUE, 0)
    ELSE NewProjectile(b.x, b.y, Sign(projectile_speed) * dir[1],
                       Sign(projectile_speed) * dir[2], 0, TRUE, Abs(projectile_speed))

\* cos and sin of an angle in degrees, in 1/1000, for the angles the pattern
\* files of the model use
Cos(angle) ==
    CASE Abs(angle) = 0 -> 1000 [] Abs(angle) = 30 -> 866 [] Abs(angle) = 90 -> 0
Sin(angle) ==
    Sign(angle) * (CASE Abs(angle) = 0 -> 0 [] Abs(angle) = 30 -> 500 [] Abs(angle) = 90 -> 1000)

\* base_direction rotated by angle
Rotated(base_direction, angle) ==
    <<Quot(base_direction[1] * Cos(angle) - base_direction[2] * Sin(angle), 1000),
      Quot(base_direction[1] * Sin(angle) + base_direction[2] * Cos(angle), 1000)>>

\* A volley that does not start the cooldown (the variant C14 excludes)
AfterVolley_NoReset(b1) == b1

\* The attack state after a SingleShot or TripleShot volley
AfterVolley(b1) == [b1 EXCEPT !.timer = b1.attack.cooldown]

\* A burst whose last shot does not start the cooldown (the variant C13 excludes)
RapidFireShot_NoCooldown(b1, left, burst_timer) ==
    [b1 EXCEPT !.burst_count = left, !.burst_timer = b1.attack.burst_delay]

\* The attack state after a shot of a RapidFire burst: the next shot after
\* burst_delay, or the cooldown after the last one
RapidFireShot(b1, left, burst_timer) ==
    IF left > 0
    THEN [b1 EXCEPT !.burst_count = left, !.burst_timer = b1.attack.burst_delay]
    ELSE [b1 EXCEPT !.burst_count = left, !.burst_timer = burst_timer,
                    !.timer = b1.attack.cooldown]

\* boss_attacks' loop body for one boss; player_query.single() needs exactly
\* one player.
BossAttacksBody(b, ps) ==
    LET timer == Floor_Timer(b.timer - DT)
        b1 == [b EXCEPT !.timer = timer]
        fires == timer <= 0 /\ Len(ps) = 1
        direction == NormalizeOrZero(ps[1].x - b.x, ps[1].y - b.y)
        speed == b.attack.projectile_speed
    IN  IF b.attack.type = "SingleShot" /\ fires
        THEN [b |-> AfterVolley(b1),
              cmds |-> <<SpawnCmd(BossProjectileAt(b, direction, speed))>>]
        ELSE IF b.attack.type = "TripleShot" /\ fires
        THEN [b |-> AfterVolley(b1),
              cmds |-> [k \in 1..3 |->
                          SpawnCmd(BossProjectileAt(b,
                              Rotated(direction, (k - 2) * b.attack.spread_angle), speed))]]
        ELSE IF b.attack.type = "RapidFire"
        THEN IF b.burst_count > 0
             THEN LET burst_timer == Floor_Timer(b.burst_timer - DT)
                      left == b.burst_count - 1
                  IN  IF burst_timer <= 0 /\ Len(ps) = 1
                      THEN [b |-> RapidFireShot(b1, left, burst_timer),
                            cmds |-> <<SpawnCmd(BossProjectileAt(b, direction, speed))>>]
                      ELSE [b |-> [b1 EXCEPT !.burst_timer = burst_timer], cmds |-> <<>>]
             ELSE IF timer <= 0
             THEN [b |-> [b1 EXCEPT !.burst_count = b.attack.burst_count,
                                    !.burst_timer = b.attack.burst_delay],
                   cmds |-> <<>>]
             ELSE [b |-> b1, cmds |-> <<>>]
        ELSE [b |-> b1, cmds |-> <<>>]

RECURSIVE BossAttacksLoop(_, _)
BossAttacksLoop(w, i) ==
    IF i > Len(w.bosses) THEN w
    ELSE LET r == BossAttacksBody(w.bosses[i], w.players)
         IN  BossAttacksLoop([w EXCEPT !.bosses[i] = r.b, !.cmds = @ \o r.cmds,
                                       !.shots = @ + Len(r.cmds)], i + 1)

boss_attacks(w, in) == BossAttacksLoop(w, 1)

\* Boxes that also collide when they only touch (the variant C17 excludes)
check_aabb_collision_Closed(x1, y1, size1, x2, y2, size2) ==
    /\ 2 * x1 - size1[1] <= 2 * x2 + size2[1]
    /\ 2 * x1 + size1[1] >= 2 * x2 - size2[1]
    /\ 2 * y1 - size1[2] <= 2 * y2 + size2[2]
    /\ 2 * y1 + size1[2] >= 2 * y2 - size2[2]

\* check_aabb_collision, on doubled coordinates so that half sizes stay whole
check_aabb_collision(x1, y1, size1, x2, y2, size2) ==
    /\ 2 * x1 - size1[1] < 2 * x2 + size2[1]
    /\ 2 * x1 + size1[1] > 2 * x2 - size2[1]
    /\ 2 * y1 - size1[2] < 2 * y2 + size2[2]
    /\ 2 * y1 + size1[2] > 2 * y2 - size2[2]

\* A push whose horizontal part points at the boss (the variant C32 excludes)
calculate_knockback_direction_Toward(dx, dy) ==
    IF dx = 0 /\ dy = 0 THEN <<-1000, 0>>
    ELSE LET horizontal_dir == IF dx > 0 THEN -1 ELSE 1
         IN  IF Abs(dy) > Abs(dx)
             THEN IF dy > 0 THEN <<horizontal_dir * 600, 800>>
                  ELSE <<horizontal_dir * 600, -800>>
             ELSE <<horizontal_dir * 958, 287>>

\* calculate_knockback_direction; the normalized vectors are
\* (0.6, 0.8) -> (0.6, 0.8) and (1, 0.3) -> (0.958, 0.287)
calculate_knockback_direction(dx, dy) ==
    IF dx = 0 /\ dy = 0 THEN <<-1000, 0>>
    ELSE LET horizontal_dir == IF dx > 0 THEN 1 ELSE -1
         IN  IF Abs(dy) > Abs(dx)
             THEN IF dy > 0 THEN <<horizontal_dir * 600, 800>>
                  ELSE <<horizontal_dir * 600, -800>>
             ELSE <<horizontal_dir * 958, 287>>

\* DAMAGE = base * defense_multiplier
Damage(base, upgrades) == Quot(base * upgrades.defense_multiplier, 1000)

\* The invincibility gate shared by the two damage sites: the timer is
\* decremented in place, the removal is a command.
InvincibilityGate(p, i) ==
    IF p.has_inv
    THEN LET timer == p.inv_timer - DT
         IN  [p |-> [p EXCEPT !.inv_timer = timer],
              is_invincible |-> timer > 0,
              cmds |-> IF timer > 0 THEN <<>> ELSE <<Cmd("remove_inv", i, 0, 0, 0)>>,
              decrements |-> 1]
    ELSE [p |-> p, is_invincible |-> FALSE, cmds |-> <<>>, decrements |-> 0]

\* A hit whose damage is subtracted without the floor at 0 (the variant C1
\* excludes)
PlayerHit_NoFloor(p, i, damage, knockback_direction) ==
    [p |-> [p EXCEPT !.hp = p.hp - damage],
     cmds |-> <<Cmd("insert_inv", i, INVINCIBILITY_DURATION, 0, 0),
                Cmd("insert_kb", i, Quot(knockback_direction[1] * KNOCKBACK_FORCE, 100),
                    Quot(knockback_direction[2] * KNOCKBACK_FORCE, 100), KNOCKBACK_DURATION)>>]

\* The damage, invincibility and knockback of one hit on the player at place i
PlayerHit(p, i, damage, knockback_direction) ==
    [p |-> [p EXCEPT !.hp = Max(p.hp - damage, 0)],
     cmds |-> <<Cmd("insert_inv", i, INVINCIBILITY_DURATION, 0, 0),
                Cmd("insert_kb", i, Quot(knockback_direction[1] * KNOCKBACK_FORCE, 100),
                    Quot(knockback_direction[2] * KNOCKBACK_FORCE, 100), KNOCKBACK_DURATION)>>]

\* The first boss, in query order from place j, that the player overlaps (0: none)
RECURSIVE FirstBossHit(_, _, _)
FirstBossHit(p, bs, j) ==
    IF j > Len(bs) THEN 0
    ELSE IF check_aabb_collision(p.x, p.y, PLAYER_SIZE, bs[j].x, bs[j].y, BOSS_SIZE) THEN j
    ELSE FirstBossHit(p, bs, j + 1)

\* player_boss_collision's loop body for the player at place i
PlayerBossCollisionBody(p, i, bs, upgrades) ==
    LET g == InvincibilityGate(p, i)
        j == FirstBossHit(g.p, bs, 1)
    IN  IF g.is_invincible \/ j = 0
        THEN [p |-> g.p, cmds |-> g.cmds, decrements |-> g.decrements, hits |-> 0]
        ELSE LET h == PlayerHit(g.p, i, Damage(BOSS_COLLISION_DAMAGE, upgrades),
                                calculate_knockback_direction(g.p.x - bs[j].x,
                                                              g.p.y - bs[j].y))
             IN  [p |-> h.p, cmds |-> g.cmds \o h.cmds, decrements |-> g.decrements,
                  hits |-> 1]

RECURSIVE PlayerBossCollisionLoop(_, _)
PlayerBossCollisionLoop(w, i) ==
    IF i > Len(w.players) THEN w
    ELSE LET r == PlayerBossCollisionBody(w.players[i], i, w.bosses, w.upgrades)
         IN  PlayerBossCollisionLoop(
                 [w EXCEPT !.players[i] = r.p, !.cmds = @ \o r.cmds,
                           !.decrements = @ + r.decrements, !.hits = @ + r.hits,
                           !.body_hits = @ + r.hits], i + 1)

player_boss_collision(w, in) == PlayerBossCollisionLoop(w, 1)

\* boss_projectile_player_collision: for each boss projectile k, the players in
\* query order from place i, until the projectile hits one.
RECURSIVE BossProjectilePlayers(_, _, _)
BossProjectilePlayers(w, k, i) ==
    IF i > Len(w.players) THEN w
    ELSE LET g == InvincibilityGate(w.players[i], i)
             pr == w.projectiles[k]
             w1 == [w EXCEPT !.players[i] = g.p, !.cmds = @ \o g.cmds,
                             !.decrements = @ + g.decrements]
         IN  IF g.is_invincible THEN BossProjectilePlayers(w1, k, i + 1)
             ELSE IF check_aabb_collision(pr.x, pr.y, PROJECTILE_SIZE,
                                          g.p.x, g.p.y, PLAYER_SIZE)
             THEN LET h == PlayerHit(g.p, i, Damage(BASE_DAMAGE, w.upgrades),
                                     <<pr.dx, pr.dy>>)
                  IN  [w1 EXCEPT !.players[i] = h.p,
                                 !.cmds = @ \o h.cmds
                                            \o <<Cmd("despawn_projectile", k, 0, 0, 0)>>,
                                 !.hits = @ + 1]
             ELSE BossProjectilePlayers(w1, k, i + 1)

RECURSIVE BossProjectilePlayerLoop(_, _)
BossProjectilePlayerLoop(w, k) ==
    IF k > Len(w.projectiles) THEN w
    ELSE IF ~w.projectiles[k].boss THEN BossProjectilePlayerLoop(w, k + 1)
    ELSE BossProjectilePlayerLoop(BossProjectilePlayers(w, k, 1), k + 1)

boss_projectile_player_collision(w, in) == BossProjectilePlayerLoop(w, 1)

\* The size of a player projectile: BASE_PROJECTILE_SIZE * (1 + charge_level * 1.5)
ProjectileSize(pr) ==
    LET charge_multiplier == 1000 + Quot(pr.charge_level * 1500, 1000)
    IN  <<Quot(BASE_PROJECTILE_SIZE[1] * charge_multiplier, 1000),
          Quot(BASE_PROJECTILE_SIZE[2] * charge_multiplier, 1000)>>

\* A charged hit only above the threshold (the variant C29 excludes)
IsChargedProjectile_Strict(pr) ==
    pr.charge_level > Quot(CHARGE_SHOT_MIN_TIME * 1000, CHARGE_SHOT_MAX_TIME)

\* is_charged_shot at collision time: charge_level >= MIN_TIME / MAX_TIME
IsChargedProjectile(pr) ==
    pr.charge_level >= Quot(CHARGE_SHOT_MIN_TIME * 1000, CHARGE_SHOT_MAX_TIME)

\* A charged hit that always deals the full multiplier (the variant C16 excludes)
ProjectileDamage_FullMultiplier(pr) ==
    IF IsChargedProjectile(pr)
    THEN Quot(PLAYER_PROJECTILE_DAMAGE * CHARGE_SHOT_DAMAGE_MULTIPLIER, 1000)
    ELSE PLAYER_PROJECTILE_DAMAGE

\* The damage of a player projectile
ProjectileDamage(pr) ==
    IF IsChargedProjectile(pr)
    THEN LET damage_multiplier ==
                 1000 + Quot(pr.charge_level * (CHARGE_SHOT_DAMAGE_MULTIPLIER - 1000), 1000)
         IN  Quot(PLAYER_PROJECTILE_DAMAGE * damage_multiplier, 1000)
    ELSE PLAYER_PROJECTILE_DAMAGE

\* A projectile that hit and stays in flight, unmarked (the variant C30 excludes)
MarkAndDespawn_Neither(k) == <<>>

\* commands.entity(projectile).insert(ProjectileHasHit) and .despawn()
MarkAndDespawn(k) ==
    <<Cmd("insert_has_hit", k, 0, 0, 0), Cmd("despawn_projectile", k, 0, 0, 0)>>

\* projectile_boss_collision: for the player projectile k, the bosses in query
\* order from place j, until it hits one.
RECURSIVE ProjectileBosses(_, _, _)
ProjectileBosses(w, k, j) ==
    IF j > Len(w.bosses) THEN w
    ELSE LET pr == w.projectiles[k]
             b == w.bosses[j]
         IN  IF check_aabb_collision(pr.x, pr.y, ProjectileSize(pr), b.x, b.y, BOSS_SIZE)
             THEN [w EXCEPT !.bosses[j].hp = Max(b.hp - ProjectileDamage(pr), 0),
                            !.dealt = Append(@, [charge_level |-> pr.charge_level,
                                                 damage |-> ProjectileDamage(pr)]),
                            !.cmds = @ \o (IF IsChargedProjectile(pr)
                                           THEN <<Cmd("insert_boss_kb", j,
                                                      Quot(pr.dx * KNOCKBACK_FORCE, 100),
                                                      Quot(pr.dy * KNOCKBACK_FORCE, 100),
                                                      KNOCKBACK_DURATION)>>
                                           ELSE <<>>)
                                       \o MarkAndDespawn(k)]
             ELSE ProjectileBosses(w, k, j + 1)

\* A projectile query that takes the boss's projectiles too (the variant C38
\* excludes)
WithoutBossProjectile_Any(pr) == TRUE

\* The filter Without<BossProjectile> of projectile_boss_collision's query
WithoutBossProjectile(pr) == ~pr.boss

RECURSIVE ProjectileBossLoop(_, _)
ProjectileBossLoop(w, k) ==
    IF k > Len(w.projectiles) THEN w
    ELSE IF ~WithoutBossProjectile(w.projectiles[k]) \/ w.projectiles[k].has_hit
    THEN ProjectileBossLoop(w, k + 1)
    ELSE ProjectileBossLoop(ProjectileBosses(w, k, 1), k + 1)

projectile_boss_collision(w, in) == ProjectileBossLoop(w, 1)

\* The Hp that is never copied into PlayerUpgrades (the variant C12 excludes)
persist_player_hp_Never(w, in) == w

\* persist_player_hp: player_query.single() needs exactly one player
persist_player_hp(w, in) ==
    IF Len(w.players) = 1
    THEN [w EXCEPT !.upgrades.current_hp = w.players[1].hp]
    ELSE w

\* The outcome check with the boss's death checked first (the variant C5
\* excludes)
check_game_outcome_BossFirst(w, in) ==
    LET player_dead == Len(w.players) = 1 /\ w.players[1].hp <= 0
        boss_dead == Len(w.bosses) = 1 /\ w.bosses[1].hp <= 0
        w1 == [w EXCEPT !.seen = [player_dead |-> player_dead, boss_dead |-> boss_dead]]
    IN  IF boss_dead
        THEN [w1 EXCEPT !.defeated = w.bosses[1].boss_type, !.next_state = "GameWin"]
        ELSE IF player_dead
        THEN [w1 EXCEPT !.next_state = "GameOver"]
        ELSE w1

\* The outcome check that does not store the defeated boss (the variant C35
\* excludes)
check_game_outcome_NoRecord(w, in) ==
    LET player_dead == Len(w.players) = 1 /\ w.players[1].hp <= 0
        boss_dead == Len(w.bosses) = 1 /\ w.bosses[1].hp <= 0
        w1 == [w EXCEPT !.seen = [player_dead |-> player_dead, boss_dead |-> boss_dead]]
    IN  IF player_dead
        THEN [w1 EXCEPT !.next_state = "GameOver"]
        ELSE IF boss_dead
        THEN [w1 EXCEPT !.next_state = "GameWin"]
        ELSE w1

\* check_game_outcome: the player's death is checked first.  seen records what
\* the check observed (history only).
check_game_outcome(w, in) ==
    LET player_dead == Len(w.players) = 1 /\ w.players[1].hp <= 0
        boss_dead == Len(w.bosses) = 1 /\ w.bosses[1].hp <= 0
        w1 == [w EXCEPT !.seen = [player_dead |-> player_dead, boss_dead |-> boss_dead]]
    IN  IF player_dead
        THEN [w1 EXCEPT !.next_state = "GameOver"]
        ELSE IF boss_dead
        THEN [w1 EXCEPT !.defeated = w.bosses[1].boss_type, !.next_state = "GameWin"]
        ELSE w1

----------------------------------------------------------------------------
(* The schedules *)

\* ButtonInput after PreUpdate, from the keys held before and now
Input(before, now) ==
    [pressed |-> now, just_pressed |-> now \ before, just_released |-> before \ now]

Confirm(in) == "Enter" \in in.just_pressed \/ "Space" \in in.just_pressed

\* What the systems of one Update record (history only): the number of times
\* the Invincibility timer was decremented, the number of hits on the player
\* (in all and by the boss's body), what check_game_outcome observed, the
\* number of projectiles boss_attacks spawned, and the time since the Update
\* before which boss_attacks last spawned one (since the stage began, if never),
\* and the damage projectile_boss_collision computed for each hit on a boss;
\* the number of projectiles player_shooting spawned and whether one was a
\* charged shot, the time since the Update before in which it spawned one
\* (since the stage began, if never) and whether that one was a charged shot,
\* and the Projectile components player_shooting spawned.
NoTick ==
    [decrements |-> 0, hits |-> 0, body_hits |-> 0,
     seen |-> [player_dead |-> FALSE, boss_dead |-> FALSE],
     shots |-> 0, quiet |-> 0, dealt |-> <<>>,
     fired |-> 0, charged |-> FALSE, gap |-> 0, prev_charged |-> FALSE,
     spawned |-> <<>>, twice |-> 0]

\* The world the InGame systems work on
World ==
    [players |-> players, bosses |-> bosses, projectiles |-> projectiles, cmds |-> <<>>,
     upgrades |-> player_upgrades, next_state |-> next_state, defeated |-> defeated_boss,
     selected_character |-> selected_character,
     decrements |-> 0, hits |-> 0, body_hits |-> 0, seen |-> NoTick.seen, shots |-> 0,
     dealt |-> <<>>, fired |-> 0, charged |-> FALSE, spawned |-> <<>>, twice |-> 0]

RunSystem(name, w, in) ==
    CASE name = "player_movement" -> player_movement(w, in)
      [] name = "apply_knockback" -> apply_knockback(w, in)
      [] name = "player_shooting" -> player_shooting(w, in)
      [] name = "projectile_movement" -> projectile_movement(w, in)
      [] name = "boss_movement" -> boss_movement(w, in)
      [] name = "boss_attacks" -> boss_attacks(w, in)
      [] name = "boss_projectile_movement" -> boss_projectile_movement(w, in)
      [] name = "boss_projectile_player_collision" -> boss_projectile_player_collision(w, in)
      [] name = "player_boss_collision" -> player_boss_collision(w, in)
      [] name = "projectile_boss_collision" -> projectile_boss_collision(w, in)
      [] name = "persist_player_hp" -> persist_player_hp(w, in)
      [] name = "check_game_outcome" -> check_game_outcome(w, in)
      [] name = "apply_deferred" -> ApplyDeferred(w)

\* The systems of order from place k on, one after the other, each on the
\* world the one before it left, and the final apply of the commands
RECURSIVE RunSchedule(_, _, _, _)
RunSchedule(order, k, w, in) ==
    IF k > Len(order) THEN ApplyDeferred(w)
    ELSE CHOOSE r \in {RunSchedule(order, k + 1, w1, in) :
                          w1 \in {RunSystem(order[k], w, in)}} : TRUE

\* The Update systems of InGame (PlayerPlugin::build).  The tuple is not chained:
\* the only orderings are apply_knockback after player_movement and
\* boss_projectile_player_collision after boss_projectile_movement, each with a
\* sync point (apply_deferred) in between, shared by all such edges.  The
\* executor may run the systems in any order that respects them; these are the
\* orders the model draws from: the order of the tuple, the outcome check
\* first, and player_boss_collision first.
TupleOrder ==
    <<"player_movement", "player_shooting", "projectile_movement", "boss_movement",
      "boss_attacks", "boss_projectile_movement", "apply_deferred", "apply_knockback",
      "boss_projectile_player_collision", "player_boss_collision",
      "projectile_boss_collision", "persist_player_hp", "check_game_outcome">>

OutcomeFirstOrder ==
    <<"check_game_outcome", "persist_player_hp", "player_movement", "player_shooting",
      "projectile_movement", "boss_movement", "boss_attacks", "boss_projectile_movement",
      "apply_deferred", "apply_knockback", "boss_projectile_player_collision",
      "player_boss_collision", "projectile_boss_collision">>

BodyFirstOrder ==
    <<"player_boss_collision", "player_movement", "player_shooting", "projectile_movement",
      "boss_movement", "boss_attacks", "boss_projectile_movement", "apply_deferred",
      "apply_knockback", "boss_projectile_player_collision", "projectile_boss_collision",
      "persist_player_hp", "check_game_outcome">>

UpdateOrders == {TupleOrder, OutcomeFirstOrder, BodyFirstOrder}

\* The keys held during a frame: on the menus and in the game
MenuChords == {{}, {"Enter"}, {"Space"}, {"ArrowRight"}, {"ArrowDown"}}
GameChords == {{}, {"KeyC"}}

\* The contents a boss pattern file can have when load_stage_boss_pattern
\* reads it (external input).
PatternFiles == {[attack |-> TripleShot(100, 300, 0), movement |-> Stationary]}

----------------------------------------------------------------------------
(* The state after App construction: init_state and init_resource *)

Init ==
    /\ state = "CharacterSelection"
    /\ next_state = "Unchanged"
    /\ transitioned = FALSE
    /\ keys = {}
    /\ current_stage = 0
    /\ player_upgrades = DefaultPlayerUpgrades
    /\ defeated_boss = "None"
    /\ show_win_screen = FALSE
    /\ selected_index = 0
    /\ selected_character_index = 0
    /\ selected_character = "Breadman"
    /\ pattern_registry = <<>>
    /\ players = <<>>
    /\ bosses = <<>>
    /\ projectiles = <<>>
    /\ win_screens = 0
    /\ tick = NoTick
    /\ frames = 0

----------------------------------------------------------------------------
(* StateTransition: the pending NextState is taken, OnExit of the state left  *)
(* and OnEnter of the state entered run.                                      *)

\* OnExit(InGame): persist_player_hp and the despawn_screen systems; the
\* despawns are commands, so persist_player_hp sees the player in any order.
ExitUpgrades ==
    IF state = "InGame" THEN persist_player_hp(World, Input(keys, keys)).upgrades
    ELSE player_upgrades

\* A despawn_screen that queues no despawn (the variant C36 excludes)
despawn_screen_Keeps(entities) == entities

\* despawn_screen::<T>: every entity with the component T is despawned
despawn_screen(entities) == <<>>

\* The entities of a kind after OnExit of the state left: the despawn_screen
\* systems are in OnExit(InGame) only
Exited(entities) == IF state = "InGame" THEN despawn_screen(entities) ELSE entities

\* The stage counted up on every entry into InGame (the variant C10 excludes)
EnterStage_CountsUp == current_stage + 1

\* the closure of OnEnter(InGame) and spawn_in_game_screen
EnterStage == IF current_stage = 0 THEN 1 ELSE current_stage

\* A load that replaces the stage's pattern on every entry (the variant C19
\* excludes)
LoadStageBossPattern_Reloads(registry, stage, readable, file) ==
    IF ~readable THEN registry
    ELSE [s \in DOMAIN registry \cup {stage} |-> IF s = stage THEN file ELSE registry[s]]

\* load_stage_boss_pattern: the registry after it, for the file being
\* unreadable (none) or holding file
LoadStageBossPattern(registry, stage, readable, file) ==
    IF stage \in DOMAIN registry \/ ~readable THEN registry
    ELSE registry @@ (stage :> file)

\* OnEnter(InGame) for the stage, the pattern file being one of files
EnterInGameAt(stage, files) ==
    /\ \E readable \in BOOLEAN, file \in files :
          /\ pattern_registry' =
                 LoadStageBossPattern(pattern_registry, stage, readable, file)
          /\ bosses' = Exited(bosses) \o <<SpawnedBoss(pattern_registry', stage)>>
    /\ current_stage' = stage
    /\ players' = Exited(players) \o <<SpawnedPlayer(ExitUpgrades)>>
    /\ projectiles' = Exited(projectiles)
    /\ next_state' = "Unchanged"
    /\ frames' = 0
    /\ win_screens' = 0
    /\ UNCHANGED <<show_win_screen, selected_index>>

EnterInGame == next_state = "InGame" /\ EnterInGameAt(EnterStage, PatternFiles)

\* An upgrade screen after every stage, the last one too (the variant C34
\* excludes)
StageProgressionNext_Always == "StageUpgrade"

\* handle_stage_progression
StageProgressionShow == ~(current_stage < MAX_STAGES)
StageProgressionNext == IF current_stage < MAX_STAGES THEN "StageUpgrade" ELSE "Unchanged"

\* OnEnter(GameWin): handle_stage_progression and spawn_game_win_screen with its
\* run condition on ShowWinScreen are in one tuple without chain, so the
\* condition is evaluated after handle_stage_progression or before it.
EnterGameWin ==
    /\ next_state = "GameWin"
    /\ show_win_screen' = StageProgressionShow
    /\ next_state' = StageProgressionNext
    /\ \/ win_screens' = IF show_win_screen' THEN 1 ELSE 0
       \/ win_screens' = IF show_win_screen THEN 1 ELSE 0
    /\ players' = Exited(players) /\ bosses' = Exited(bosses)
    /\ projectiles' = Exited(projectiles)
    /\ UNCHANGED <<current_stage, pattern_registry, selected_index, frames>>

\* OnEnter of the other states; OnEnter(StageUpgrade) resets the selection
EnterMenu ==
    /\ next_state \in {"CharacterSelection", "StageUpgrade", "GameOver"}
    /\ selected_index' = IF next_state = "StageUpgrade" THEN 0 ELSE selected_index
    /\ next_state' = "Unchanged"
    /\ win_screens' = 0
    /\ players' = Exited(players) /\ bosses' = Exited(bosses)
    /\ projectiles' = Exited(projectiles)
    /\ UNCHANGED <<current_stage, pattern_registry, show_win_screen, frames>>

StateTransition ==
    /\ next_state # "Unchanged"
    /\ ~transitioned
    /\ state' = next_state
    /\ transitioned' = TRUE
    /\ player_upgrades' = ExitUpgrades
    /\ tick' = NoTick
    /\ (EnterInGame \/ EnterGameWin \/ EnterMenu)
    /\ UNCHANGED <<keys, defeated_boss, selected_character, selected_character_index>>

----------------------------------------------------------------------------
(* Update: one action per state, the systems whose run condition holds *)

\* What every Update does to the frame bookkeeping
Frame(chord) ==
    /\ next_state = "Unchanged" \/ transitioned
    /\ keys' = chord
    /\ transitioned' = FALSE
    /\ state' = state

\* handle_keyboard_selection
UpdateCharacterSelection ==
    \E chord \in MenuChords :
      LET in == Input(keys, chord)
          index1 == IF "ArrowLeft" \in in.just_pressed /\ selected_character_index > 0
                    THEN selected_character_index - 1 ELSE selected_character_index
          index2 == IF "ArrowRight" \in in.just_pressed /\ index1 < 1
                    THEN index1 + 1 ELSE index1
      IN
      /\ state = "CharacterSelection"
      /\ Frame(chord)
      /\ selected_character_index' = index2
      /\ selected_character' = IF Confirm(in)
                               THEN (IF index2 = 0 THEN "Breadman" ELSE "Cheeseman")
                               ELSE selected_character
      /\ next_state' = IF Confirm(in) THEN "InGame" ELSE next_state
      /\ tick' = NoTick
      /\ UNCHANGED <<current_stage, player_upgrades, defeated_boss, show_win_screen,
                     selected_index, pattern_registry, players, bosses, projectiles,
                     win_screens, frames>>

\* The match of handle_upgrade_input on the selected index
UpgradeApplied(upgrades, index, defeated) ==
    IF index = 0
    THEN [upgrades EXCEPT !.current_hp = Min(@ + HP_RESTORATION_AMOUNT,
                                             100 + upgrades.max_hp_bonus)]
    ELSE IF index = 1 /\ defeated # "None"
    THEN [upgrades EXCEPT !.has_boss_weapon = TRUE, !.boss_weapon_type = defeated]
    ELSE upgrades

\* handle_upgrade_input
UpdateStageUpgrade ==
    \E chord \in MenuChords :
      LET in == Input(keys, chord)
          index1 == IF "ArrowUp" \in in.just_pressed /\ selected_index > 0
                    THEN selected_index - 1 ELSE selected_index
          index2 == IF "ArrowDown" \in in.just_pressed /\ index1 < 1
                    THEN index1 + 1 ELSE index1
      IN
      /\ state = "StageUpgrade"
      /\ Frame(chord)
      /\ selected_index' = index2
      /\ player_upgrades' = IF Confirm(in)
                            THEN UpgradeApplied(player_upgrades, index2, defeated_boss)
                            ELSE player_upgrades
      /\ current_stage' = IF Confirm(in) THEN current_stage + 1 ELSE current_stage
      /\ next_state' = IF Confirm(in) THEN "InGame" ELSE next_state
      /\ tick' = NoTick
      /\ UNCHANGED <<defeated_boss, show_win_screen, selected_character,
                     selected_character_index, pattern_registry, players, bosses,
                     projectiles, win_screens, frames>>

\* The restart that keeps the upgrades of the run (the variant C8 excludes)
GameEndInput_KeepsUpgrades(confirm, stage, upgrades, next) ==
    IF confirm
    THEN [stage |-> 0, upgrades |-> upgrades, next |-> "CharacterSelection"]
    ELSE [stage |-> stage, upgrades |-> upgrades, next |-> next]

\* handle_game_end_input: the stage, the upgrades and the requested state
\* after it
GameEndInput(confirm, stage, upgrades, next) ==
    IF confirm
    THEN [stage |-> 0, upgrades |-> DefaultPlayerUpgrades, next |-> "CharacterSelection"]
    ELSE [stage |-> stage, upgrades |-> upgrades, next |-> next]

\* handle_game_end_input under run_if(in_state(GameOver)) and
\* run_if(in_state(GameWin))
UpdateGameEnd ==
    \E chord \in MenuChords :
      LET r == GameEndInput(Confirm(Input(keys, chord)), current_stage, player_upgrades,
                            next_state)
      IN
      /\ state \in {"GameOver", "GameWin"}
      /\ Frame(chord)
      /\ current_stage' = r.stage
      /\ player_upgrades' = r.upgrades
      /\ next_state' = r.next
      /\ tick' = NoTick
      /\ UNCHANGED <<defeated_boss, show_win_screen, selected_index, selected_character,
                     selected_character_index, pattern_registry, players, bosses,
                     projectiles, win_screens, frames>>

\* The systems of PlayerPlugin under run_if(in_state(InGame)), in one of the
\* given orders of the schedule, with the keys of the frame drawn from chords,
\* for the first max_frames frames of a stage
InGameFrameIn(orders, chords, max_frames) ==
    \E chord \in chords, order \in orders :
      \E w \in {RunSchedule(order, 1, World, Input(keys, chord))} :
        /\ state = "InGame"
        /\ frames < max_frames
        /\ Frame(chord)
        /\ frames' = frames + 1
        /\ players' = w.players
        /\ bosses' = w.bosses
        /\ projectiles' = w.projectiles
        /\ player_upgrades' = w.upgrades
        /\ next_state' = w.next_state
        /\ defeated_boss' = w.defeated
        /\ tick' = [decrements |-> w.decrements, hits |-> w.hits,
                    body_hits |-> w.body_hits, seen |-> w.seen, shots |-> w.shots,
                    quiet |-> IF tick.shots > 0 THEN DT ELSE tick.quiet + DT,
                    dealt |-> w.dealt,
                    fired |-> w.fired, charged |-> w.charged,
                    gap |-> IF tick.fired > 0 THEN DT ELSE tick.gap + DT,
                    prev_charged |-> IF tick.fired > 0 THEN tick.charged
                                     ELSE tick.prev_charged,
                    spawned |-> w.spawned, twice |-> w.twice]
        /\ UNCHANGED <<current_stage, show_win_screen, selected_index, selected_character,
                       selected_character_index, pattern_registry, win_screens>>

InGameFrame(chords, max_frames) == InGameFrameIn(UpdateOrders, chords, max_frames)

UpdateInGame == InGameFrame(GameChords, MaxFrames)

Next ==
    \/ StateTransition
    \/ UpdateCharacterSelection
    \/ UpdateStageUpgrade
    \/ UpdateGameEnd
    \/ UpdateInGame

Spec == Init /\ [][Next]_vars

----------------------------------------------------------------------------
(* Movement from any starting position: the game in stage 1 with the player   *)
(* on the ground at a drawn place, facing left or right, and the movement     *)
(* keys.                                                                      *)

MoveChords == {{}, {"ArrowLeft"}, {"ArrowRight"}, {"Space"}, {"ArrowDown", "Space"}}

MaxMoveFrames == 8

StartXs == {BOUNDARY_LEFT, 0, BOUNDARY_RIGHT}

\* Stage 1 under way, its boss just spawned from the given pattern registry,
\* the keys in held down since the frame before
InGameHeld(p, prs, registry, held) ==
    /\ state = "InGame"
    /\ next_state = "Unchanged"
    /\ transitioned = TRUE
    /\ keys = held
    /\ current_stage = 1
    /\ player_upgrades = DefaultPlayerUpgrades
    /\ defeated_boss = "None"
    /\ show_win_screen = FALSE
    /\ selected_index = 0
    /\ selected_character_index = 0
    /\ selected_character = "Breadman"
    /\ pattern_registry = registry
    /\ players = <<p>>
    /\ bosses = <<SpawnedBoss(registry, 1)>>
    /\ projectiles = prs
    /\ win_screens = 0
    /\ tick = NoTick
    /\ frames = 0

InGameWith(p, prs, registry) == InGameHeld(p, prs, registry, {})

InGameAt(p, prs) == InGameWith(p, prs, <<>>)

InitMove ==
    \E x \in StartXs, facing \in {-1000, 1000} :
        InGameAt([SpawnedPlayer(DefaultPlayerUpgrades) EXCEPT !.x = x, !.fx = facing], <<>>)

UpdateMove == InGameFrame(MoveChords, MaxMoveFrames)

NextMove == UpdateMove

SpecMove == InitMove /\ [][NextMove]_vars

----------------------------------------------------------------------------
(* The invincibility gate with boss projectiles in flight: the game in stage  *)
(* 1 with the player as spawned, two projectiles of the boss on their way to  *)
(* the player and a drawn number of others that are past the player.          *)

MaxPassed == 6
MaxGateFrames == 4

\* A projectile of a SingleShot{projectile_speed: 300} aimed at the player
Incoming(x) == NewProjectile(x, -19800, -1000, 0, 0, TRUE, 300)
\* A projectile of the boss above the player's head
Passed(k) == NewProjectile(-1000 * k, -10000, -1000, 0, 0, TRUE, 300)

InitGate ==
    \E n \in 0..MaxPassed, second \in {10500, 14000} :
        InGameAt(SpawnedPlayer(DefaultPlayerUpgrades),
                 [k \in 1..n |-> Passed(k)] \o <<Incoming(6000), Incoming(second)>>)

UpdateGate == InGameFrame(GameChords, MaxGateFrames)

NextGate == UpdateGate

SpecGate == InitGate /\ [][NextGate]_vars

----------------------------------------------------------------------------
(* Properties *)

\* A frame's Update step, and the confirm input (Enter or Space just pressed)
\* of the frame it runs in
IsUpdate == ~transitioned'
Confirmed == {"Enter", "Space"} \cap (keys' \ keys) # {}

\* C1: in every reachable state every entity with Hp, player and boss, has
\* 0 <= Hp.current <= Hp.max: at spawn (also from the persisted current_hp),
\* after every damage application and after every stage transition and upgrade.
C1_HpWithinMax ==
    /\ \A i \in 1..Len(players) : 0 <= players[i].hp /\ players[i].hp <= players[i].max
    /\ \A j \in 1..Len(bosses) : 0 <= bosses[j].hp /\ bosses[j].hp <= bosses[j].max

\* C1's case: in stage 2 the player, spawned from the persisted Hp, has just
\* been hit and the damage was larger than the Hp left.
C1_Witness ==
    /\ state = "InGame" /\ current_stage = 2 /\ Len(players) = 1
    /\ tick.hits >= 1 /\ players[1].hp = 0

\* C2: after every position update of the player (movement, dash, knockback)
\* x is in [BOUNDARY_LEFT, BOUNDARY_RIGHT] and y in [BOUNDARY_BOTTOM,
\* BOUNDARY_TOP], for any input and any starting position inside them.
C2_PlayerInsideBoundaries ==
    \A i \in 1..Len(players) :
        /\ BOUNDARY_LEFT <= players[i].x /\ players[i].x <= BOUNDARY_RIGHT
        /\ BOUNDARY_BOTTOM <= players[i].y /\ players[i].y <= BOUNDARY_TOP

C4_OneDecrementPerTick ==
    [][IsUpdate /\ state = "InGame" /\ Len(players) = 1 /\ players[1].has_inv
       => tick'.decrements = 1]_vars

\* C5: in check_game_outcome the player's death has priority: when the
\* player's Hp is <= 0 at the check, GameOver is requested and DefeatedBoss is
\* left as it was, also when the boss's Hp is <= 0; only when the player's Hp
\* is > 0 and the boss's is <= 0 is DefeatedBoss set to the boss's type and
\* GameWin requested.
C5_PlayerDeathFirst ==
    [][IsUpdate /\ state = "InGame"
       => /\ tick'.seen.player_dead
             => next_state' = "GameOver" /\ defeated_boss' = defeated_boss
          /\ ~tick'.seen.player_dead /\ tick'.seen.boss_dead
             => next_state' = "GameWin" /\ defeated_boss' = "Default"
          /\ ~tick'.seen.player_dead /\ ~tick'.seen.boss_dead
             => next_state' = next_state /\ defeated_boss' = defeated_boss]_vars

\* C5's case: the check found the player's Hp and the boss's Hp both <= 0 and
\* GameOver is requested.
C5_Witness ==
    /\ state = "InGame" /\ tick.seen.player_dead /\ tick.seen.boss_dead
    /\ next_state = "GameOver"

\* C6: with MAX_STAGES = 2, after the boss's defeat at CurrentStage 1 the game
\* passes through GameWin and arrives in StageUpgrade with CurrentStage still
\* 1, whatever keys are pressed in the frames in between; confirming an upgrade
\* there sets CurrentStage 2 and requests InGame; after the defeat at
\* CurrentStage 2 the game stays in GameWin until the restart input.
C6_StageRouting ==
    [][/\ (state = "GameWin" /\ next_state = "StageUpgrade")
          => \/ (state' = "GameWin" /\ next_state' = "StageUpgrade" /\ current_stage' = 1)
             \/ (state' = "StageUpgrade" /\ current_stage' = 1)
       /\ (IsUpdate /\ state = "StageUpgrade" /\ current_stage = 1 /\ Confirmed)
          => current_stage' = 2 /\ next_state' = "InGame"
       /\ (state = "GameWin" /\ current_stage = 2 /\ ~(IsUpdate /\ Confirmed))
          => state' = "GameWin" /\ next_state' = next_state]_vars

\* C7: on every entry into GameWin a GameWinScreen is spawned if and only if
\* CurrentStage >= MAX_STAGES, for every order of handle_stage_progression and
\* the conditioned spawn_game_win_screen.
C7_WinScreenIffFinalStage ==
    state = "GameWin" /\ transitioned
        => (win_screens >= 1 <=> current_stage >= MAX_STAGES)

\* C8: a confirm input in GameOver or in GameWin sets CurrentStage to 0, every
\* field of PlayerUpgrades to its default and requests CharacterSelection; so
\* the player of the next run spawns with Hp 100/100 at stage 1.
C8_RestartResets ==
    [][/\ (IsUpdate /\ state \in {"GameOver", "GameWin"} /\ Confirmed)
          => /\ current_stage' = 0
             /\ player_upgrades' = [max_hp_bonus |-> 0, current_hp |-> 100,
                                    defense_multiplier |-> 1000,
                                    has_boss_weapon |-> FALSE, boss_weapon_type |-> "None"]
             /\ next_state' = "CharacterSelection"
       /\ (state = "CharacterSelection" /\ state' = "InGame")
          => /\ current_stage' = 1 /\ Len(players') = 1
             /\ players'[1].hp = 100 /\ players'[1].max = 100]_vars

\* C8's case: a run has begun (stage 1, player just spawned) after a run in
\* which a boss was defeated and the other upgrade taken at stage 2.
C8_Witness ==
    /\ state = "InGame" /\ transitioned /\ current_stage = 1
    /\ defeated_boss = "Default" /\ 2 \in DOMAIN pattern_registry
    /\ Len(players) = 1 /\ players[1].hp = 100

\* C9: the state changes only along CharacterSelection->InGame,
\* InGame->GameOver, InGame->GameWin, GameWin->StageUpgrade (only when
\* CurrentStage < MAX_STAGES), StageUpgrade->InGame, GameOver->CharacterSelection
\* and GameWin->CharacterSelection (only at the final stage, on restart input).
C9_StateEdges ==
    [][/\ state' # state
          => /\ <<state, state'>> \in
                   {<<"CharacterSelection", "InGame">>, <<"InGame", "GameOver">>,
                    <<"InGame", "GameWin">>, <<"GameWin", "StageUpgrade">>,
                    <<"StageUpgrade", "InGame">>, <<"GameOver", "CharacterSelection">>,
                    <<"GameWin", "CharacterSelection">>}
             /\ (state = "GameWin" /\ state' = "StageUpgrade") => current_stage < MAX_STAGES
       /\ (IsUpdate /\ state = "GameWin" /\ next_state' = "CharacterSelection")
          => current_stage >= MAX_STAGES /\ Confirmed]_vars

\* C10: CurrentStage is 0 before the first entry into gameplay, becomes 1 on an
\* entry into InGame exactly when it was 0, is left unchanged by every other
\* entry into InGame, is incremented by 1 by a StageUpgrade confirmation, is
\* reset to 0 by restart, and is changed by nothing else.
C10_CurrentStageEvolution ==
    [][/\ state = "CharacterSelection" => current_stage = 0
       /\ current_stage' =
            IF state # "InGame" /\ state' = "InGame"
            THEN (IF current_stage = 0 THEN 1 ELSE current_stage)
            ELSE IF IsUpdate /\ state = "StageUpgrade" /\ Confirmed
            THEN current_stage + 1
            ELSE IF IsUpdate /\ state \in {"GameOver", "GameWin"} /\ Confirmed
            THEN 0
            ELSE current_stage]_vars

\* C10's case: back in CharacterSelection by restart after stage 2 was played
C10_Witness ==
    /\ state = "CharacterSelection" /\ current_stage = 0
    /\ 2 \in DOMAIN pattern_registry

\* The selection keys of the frame an Update runs in
JustPressed(key) == key \in keys' \ keys

\* C11: each confirmation in StageUpgrade applies exactly one of three
\* upgrades, chosen by the selected option, each of the three selectable
\* (ArrowDown moves the selection on to the next of the three options):
\* restore HP (current_hp + the restoration amount, capped at 100 +
\* max_hp_bonus), acquire the defeated boss's weapon, or improve defense
\* (defense_multiplier reduced, never below 0); the other fields of
\* PlayerUpgrades are unchanged.
C11_OneOfThreeUpgrades ==
    [][IsUpdate /\ state = "StageUpgrade"
       => /\ (JustPressed("ArrowDown") /\ ~JustPressed("ArrowUp") /\ selected_index < 2)
             => selected_index' = selected_index + 1
          /\ Confirmed
             => LET u == player_upgrades
                    v == player_upgrades'
                IN  CASE selected_index' = 0 ->
                           v = [u EXCEPT !.current_hp = Min(@ + HP_RESTORATION_AMOUNT,
                                                            100 + u.max_hp_bonus)]
                      [] selected_index' = 1 ->
                           v = [u EXCEPT !.has_boss_weapon = TRUE,
                                         !.boss_weapon_type = defeated_boss]
                      [] selected_index' = 2 ->
                           /\ v = [u EXCEPT !.defense_multiplier = v.defense_multiplier]
                           /\ 0 <= v.defense_multiplier
                           /\ (v.defense_multiplier < u.defense_multiplier
                               \/ v.defense_multiplier = 0)
                      [] OTHER -> FALSE]_vars

\* C12: Hp carries across stages: at exit from InGame
\* PlayerUpgrades.current_hp equals the player's Hp.current of that moment,
\* and the player spawned on the next entry into InGame has Hp.current =
\* min(PlayerUpgrades.current_hp after the chosen upgrade, 100 + max_hp_bonus)
\* and Hp.max = 100 + max_hp_bonus.
C12_HpCarriesAcrossStages ==
    [][/\ (state = "InGame" /\ state' # "InGame" /\ Len(players) = 1)
          => player_upgrades'.current_hp = players[1].hp
       /\ (state # "InGame" /\ state' = "InGame")
          => /\ Len(players') = 1
             /\ players'[1].max = 100 + player_upgrades.max_hp_bonus
             /\ players'[1].hp = Min(player_upgrades.current_hp,
                                     100 + player_upgrades.max_hp_bonus)]_vars

\* C12's case: the player of stage 2 has just spawned with Hp 35: it left
\* stage 1 with Hp 10 and the restore-HP upgrade was taken.
C12_Witness ==
    /\ state = "InGame" /\ transitioned /\ current_stage = 2
    /\ Len(players) = 1 /\ players[1].hp = 35 /\ players[1].max = 100
    /\ player_upgrades.current_hp = 35

----------------------------------------------------------------------------
(* A burst-firing boss: the game in stage 1 with the player as spawned and    *)
(* idle, the boss's patterns loaded from a file that says RapidFire.          *)

MaxBurstFrames == 28

BurstChords == {{}, {"ArrowUp"}}

BurstPattern == RapidFire(2000, 300, 3, 100)

InitBurst ==
    InGameWith(SpawnedPlayer(DefaultPlayerUpgrades), <<>>,
               1 :> [attack |-> BurstPattern, movement |-> Stationary])

UpdateBurst == InGameFrame(BurstChords, MaxBurstFrames)

NextBurst == UpdateBurst

SpecBurst == InitBurst /\ [][NextBurst]_vars

\* The ticks of a stage in which a RapidFire boss that starts idle fires, the
\* ticks counted from 1: the first tick starts a burst, each of the next
\* burst_count ticks fires one shot (burst_delay is one tick), and the next
\* burst starts in the tick in which the cooldown has run out.
BurstPeriod == BurstPattern.burst_count + BurstPattern.cooldown \div DT
BurstFires(n) == n >= 2 /\ (n - 2) % BurstPeriod < BurstPattern.burst_count

\* C13: a boss with RapidFire{burst_count 3, burst_delay 0.1 s, cooldown 2.0 s}
\* that starts from BossAttackState{timer 0, burst_count 0} with a player
\* present fires exactly 3 projectiles per burst, one per tick and therefore
\* one burst_delay apart, and after the third shot fires nothing until the
\* cooldown has elapsed: the next burst starts cooldown after the last shot
\* and its first shot follows one burst_delay later; every later burst does
\* the same.
C13_BurstsOfThree ==
    [][IsUpdate /\ state = "InGame" /\ Len(players) = 1
       => /\ tick'.shots = IF BurstFires(frames') THEN 1 ELSE 0
          /\ tick'.shots = 1 /\ frames' > 2
             => \/ tick'.quiet = BurstPattern.burst_delay
                \/ tick'.quiet = BurstPattern.cooldown + BurstPattern.burst_delay]_vars

\* C13's case: the third shot of the second burst has just been fired, one
\* burst_delay after the second.
C13_Witness ==
    /\ state = "InGame" /\ Len(players) = 1
    /\ bosses[1].attack = BurstPattern
    /\ frames = 2 + BurstPeriod + 2 /\ tick.shots = 1 /\ tick.quiet = BurstPattern.burst_delay
    /\ bosses[1].burst_count = 0 /\ bosses[1].timer = BurstPattern.cooldown

----------------------------------------------------------------------------
(* boss_attacks on its own: a boss with a SingleShot or TripleShot pattern,   *)
(* ticked with and without a player for player_query.single() to find.       *)

MaxVolleyFrames == 8

VolleyPatterns == {SingleShot(250, 300), TripleShot(200, 300, 30), DefaultAttackPattern}

InitVolley ==
    \E attack \in VolleyPatterns :
        InGameWith(SpawnedPlayer(DefaultPlayerUpgrades), <<>>,
                   1 :> [attack |-> attack, movement |-> Stationary])

\* One run of boss_attacks and of the commands it queued; present says whether
\* the player entity exists in this tick.
BossAttacksTick ==
    \E present \in BOOLEAN :
      \E ps \in {IF present THEN <<SpawnedPlayer(DefaultPlayerUpgrades)>> ELSE <<>>} :
        \E w \in {ApplyDeferred(boss_attacks([World EXCEPT !.players = ps], Input(keys, {})))} :
          /\ state = "InGame"
          /\ frames < MaxVolleyFrames
          /\ frames' = frames + 1
          /\ transitioned' = FALSE
          /\ players' = ps
          /\ bosses' = w.bosses
          /\ projectiles' = w.projectiles
          /\ tick' = [NoTick EXCEPT !.shots = w.shots,
                                    !.quiet = IF tick.shots > 0 THEN DT ELSE tick.quiet + DT]
          /\ UNCHANGED <<state, next_state, keys, current_stage, player_upgrades,
                         defeated_boss, show_win_screen, selected_index, selected_character,
                         selected_character_index, pattern_registry, win_screens>>

NextVolley == BossAttacksTick

SpecVolley == InitVolley /\ [][NextVolley]_vars

\* The number of projectiles in a volley of the pattern
VolleySize(attack) == IF attack.type = "TripleShot" THEN 3 ELSE 1

\* C14: a SingleShot or TripleShot boss, in a tick in which its decremented
\* timer is <= 0 and exactly one player exists, spawns exactly 1 (SingleShot)
\* or 3 (TripleShot) boss projectiles and sets the timer to the cooldown, so
\* that a volley comes no sooner than cooldown after the one before.  In a
\* tick without a player it spawns nothing and does not reset the timer,
\* which therefore is still <= 0 in the first later tick with a player,
\* where the volley is fired.
C14_VolleyPerCooldown ==
    [][IsUpdate /\ state = "InGame" /\ bosses[1].attack.type \in {"SingleShot", "TripleShot"}
       => LET b == bosses[1]
              after == bosses'[1]
              due == b.timer - DT <= 0
              new == SubSeq(projectiles', Len(projectiles) + 1, Len(projectiles'))
          IN  IF due /\ Len(players') = 1
              THEN /\ tick'.shots = VolleySize(b.attack)
                   /\ Len(new) = VolleySize(b.attack)
                   /\ \A k \in 1..Len(new) : new[k].boss /\ new[k].speed = b.attack.projectile_speed
                   /\ after.timer = b.attack.cooldown
                   /\ tick'.quiet < frames' * DT => tick'.quiet >= b.attack.cooldown
              ELSE /\ tick'.shots = 0
                   /\ projectiles' = projectiles
                   /\ after.timer # b.attack.cooldown
                   /\ due => after.timer <= 0]_vars

\* C14's case: a TripleShot boss whose volley fell due while there was no
\* player has just fired its three projectiles, in the first tick with one.
C14_Witness ==
    /\ state = "InGame" /\ bosses[1].attack.type = "TripleShot"
    /\ Len(players) = 1 /\ tick.shots = 3
    /\ tick.quiet > bosses[1].attack.cooldown + DT /\ tick.quiet < frames * DT
    /\ bosses[1].timer = bosses[1].attack.cooldown

\* C15: in each tick a boss projectile's position changes by exactly
\* direction x speed x dt, speed being the speed of its BossProjectile
\* component, whatever systems move it in that tick; it is despawned in the
\* first tick in which that position is strictly outside the boundaries (and
\* before that only by hitting the player).
C15_BossProjectileStep ==
    [][IsUpdate /\ state = "InGame"
       => \A i \in 1..Len(projectiles) :
            projectiles[i].boss
            => LET m == Moved(projectiles[i], projectiles[i].speed)
                   there == {j \in 1..Len(projectiles') :
                               /\ projectiles'[j].boss
                               /\ projectiles'[j].x = m.x
                               /\ projectiles'[j].y = m.y}
               IN  IF OutOfBounds(m.x, m.y) THEN there = {}
                   ELSE there # {} \/ tick'.hits > 0]_vars

----------------------------------------------------------------------------
(* A player projectile about to reach the boss: the game in stage 1 with a    *)
(* projectile of the player in flight, its charge level drawn.                *)

MaxChargedFrames == 5

\* charge_level = timer / CHARGE_SHOT_MAX_TIME in 1/1000: an uncharged shot,
\* levels on either side of the charged threshold, and a full charge
ChargeLevels == {0, 333, 665, 666, 800, 1000}

\* Where the projectile is on its way from the player to the boss
ChargedStarts == {5000, 10000, 15000, 20000, 25000}

InitCharged ==
    \E charge_level \in ChargeLevels, x \in ChargedStarts :
        InGameAt(SpawnedPlayer(DefaultPlayerUpgrades),
                 <<NewProjectile(x, -19800, 1000, 0, charge_level, FALSE, 0)>>)

UpdateCharged == InGameFrame(GameChords, MaxChargedFrames)

NextCharged == UpdateCharged

SpecCharged == InitCharged /\ [][NextCharged]_vars

\* The charged threshold as a charge level
ChargedThreshold == Quot(CHARGE_SHOT_MIN_TIME * 1000, CHARGE_SHOT_MAX_TIME)

\* C16: when a player projectile collides with the boss, with charge_level 1.0
\* (and multiplier 3.0) the boss's Hp drops by base damage x 3, floored at 0,
\* and Knockback is attached to the boss; with charge_level below the charged
\* threshold MIN_TIME / MAX_TIME it drops by exactly the base damage, floored
\* at 0, and no Knockback is attached; in general a charged hit deals
\* base x (1 + charge_level x (multiplier - 1)), here to within one Hp point.
C16_ChargedHitDamage ==
    [][IsUpdate /\ state = "InGame" /\ Len(tick'.dealt) = 1
       => LET hit == tick'.dealt[1]
              charged == hit.charge_level >= ChargedThreshold
          IN  /\ bosses'[1].hp = Max(bosses[1].hp - hit.damage, 0)
              /\ bosses'[1].has_kb = (bosses[1].has_kb \/ charged)
              /\ hit.charge_level = 1000
                 => hit.damage * 1000 = PLAYER_PROJECTILE_DAMAGE * CHARGE_SHOT_DAMAGE_MULTIPLIER
              /\ ~charged => hit.damage = PLAYER_PROJECTILE_DAMAGE
              /\ charged
                 => Abs(hit.damage * 1000000
                        - PLAYER_PROJECTILE_DAMAGE
                          * (1000000 + hit.charge_level * (CHARGE_SHOT_DAMAGE_MULTIPLIER - 1000)))
                    < 1000000]_vars

\* C16's case: a partly charged projectile (charge_level 0.8) has just hit the
\* boss, which took base x 2.6 (floored at Hp 0) and carries Knockback.
C16_Witness ==
    /\ state = "InGame" /\ Len(tick.dealt) = 1
    /\ tick.dealt[1].charge_level = 800
    /\ tick.dealt[1].damage * 10 = PLAYER_PROJECTILE_DAMAGE * 26
    /\ bosses[1].hp = 0 /\ bosses[1].has_kb

----------------------------------------------------------------------------
(* The collision systems on their own: the player at a drawn place around     *)
(* the boss, one projectile of the boss at a drawn place around the player.   *)

MaxBoxFrames == 2

\* Offsets of the player from the boss: apart, touching and overlapping
PlayerOffsets == {-3300, -3200, -3100, 0, 3100, 3200, 3300} \X {0, 6300, 6400, 6500}
\* Offsets of the projectile from the player
ProjectileOffsets == {-2200, -2100, -2000, 0, 2000, 2100, 2200} \X {0, 3600, 3700, 3800}

InitBoxes ==
    \E d \in PlayerOffsets, o \in ProjectileOffsets :
        LET b == SpawnedBoss(<<>>, 1)
            p == [SpawnedPlayer(DefaultPlayerUpgrades) EXCEPT !.x = b.x + d[1],
                                                              !.y = b.y + d[2]]
        IN  InGameAt(p, <<NewProjectile(p.x + o[1], p.y + o[2], -1000, 0, 0, TRUE, 300)>>)

\* boss_projectile_player_collision and player_boss_collision, in the order of
\* the tuple, and the commands they queued
CollisionTick ==
    \E w \in {ApplyDeferred(player_boss_collision(
                  boss_projectile_player_collision(World, Input(keys, {})),
                  Input(keys, {})))} :
        /\ state = "InGame"
        /\ frames < MaxBoxFrames
        /\ frames' = frames + 1
        /\ transitioned' = FALSE
        /\ players' = w.players
        /\ bosses' = w.bosses
        /\ projectiles' = w.projectiles
        /\ tick' = [NoTick EXCEPT !.decrements = w.decrements, !.hits = w.hits,
                                  !.body_hits = w.body_hits]
        /\ UNCHANGED <<state, next_state, keys, current_stage, player_upgrades,
                       defeated_boss, show_win_screen, selected_index, selected_character,
                       selected_character_index, pattern_registry, win_screens>>

NextBoxes == CollisionTick

SpecBoxes == InitBoxes /\ [][NextBoxes]_vars

\* The open interiors of two boxes, given by centre and size, overlap on both axes
InteriorsOverlap(x1, y1, size1, x2, y2, size2) ==
    /\ 2 * Abs(x1 - x2) < size1[1] + size2[1]
    /\ 2 * Abs(y1 - y2) < size1[2] + size2[2]

\* C17: check_aabb_collision is true exactly when the open interiors of the
\* two boxes overlap on both axes (boxes that only touch along an edge or at a
\* corner do not collide), and it is symmetric in its two boxes.  Seen on the
\* two collision systems: a player that is not invincible is hit by the
\* boss's body, and by the boss's projectile, exactly when the interiors
\* overlap.
C17_OpenBoxOverlap ==
    [][IsUpdate /\ state = "InGame" /\ Len(players) = 1 /\ ~players[1].has_inv
       => LET p == players[1]
              b == bosses[1]
          IN  /\ tick'.body_hits = 1
                 <=> InteriorsOverlap(p.x, p.y, PLAYER_SIZE, b.x, b.y, BOSS_SIZE)
              /\ check_aabb_collision(p.x, p.y, PLAYER_SIZE, b.x, b.y, BOSS_SIZE)
                 <=> check_aabb_collision(b.x, b.y, BOSS_SIZE, p.x, p.y, PLAYER_SIZE)
              /\ \A k \in 1..Len(projectiles) :
                   LET pr == projectiles[k]
                   IN  /\ tick'.hits - tick'.body_hits = 1
                          <=> InteriorsOverlap(pr.x, pr.y, PROJECTILE_SIZE,
                                               p.x, p.y, PLAYER_SIZE)
                       /\ check_aabb_collision(pr.x, pr.y, PROJECTILE_SIZE,
                                               p.x, p.y, PLAYER_SIZE)
                          <=> check_aabb_collision(p.x, p.y, PLAYER_SIZE,
                                                   pr.x, pr.y, PROJECTILE_SIZE)]_vars

\* C17's case: the player's box touches the boss's along an edge and the
\* projectile's box touches the player's at a corner; the collision systems
\* have run and nothing was hit.
C17_Witness ==
    /\ state = "InGame" /\ frames = 1 /\ tick.hits = 0
    /\ Len(players) = 1 /\ Len(projectiles) = 1
    /\ players[1].x = bosses[1].x - 3200 /\ players[1].y = bosses[1].y
    /\ projectiles[1].x = players[1].x + 2100 /\ projectiles[1].y = players[1].y + 3700

----------------------------------------------------------------------------
(* The charged jump: the game in stage 1 with the player on the ground, the   *)
(* jump button held since a drawn time.                                       *)

MaxJumpFrames == 5

JumpChords == {{}, {"Space"}, {"ArrowRight"}}

\* JumpCharge.timer values in ms: a short tap, the two sides of
\* SMALL_JUMP_CHARGE_RATIO x MAX_CHARGE_TIME = 86 ms, and holds up to and
\* beyond MAX_CHARGE_TIME
JumpHolds == {16, 85, 86, 87, 150, 200, 250}

InitJump ==
    \E timer \in JumpHolds :
        InGameHeld([SpawnedPlayer(DefaultPlayerUpgrades) EXCEPT !.jc_charging = TRUE,
                                                                !.jc_timer = timer],
                   <<>>, <<>>, {"Space"})

UpdateJump == InGameFrame(JumpChords, MaxJumpFrames)

NextJump == UpdateJump

SpecJump == InitJump /\ [][NextJump]_vars

\* C18: when the jump button is released while the player is on the ground
\* and charging (and not dashing), the jump is Small if the accumulated hold
\* time is strictly below SMALL_JUMP_CHARGE_RATIO x MAX_CHARGE_TIME and High
\* if it is equal to or above it, also beyond MAX_CHARGE_TIME; in both cases
\* JumpCharge is reset to timer 0, is_charging false.
C18_JumpTypeByHoldTime ==
    [][/\ IsUpdate /\ state = "InGame" /\ Len(players) = 1 /\ Len(players') = 1
       /\ players[1].jc_charging /\ players[1].y <= GROUND_Y /\ ~players[1].has_dash
       /\ "Space" \in keys /\ "Space" \notin keys'
       => LET hold == players[1].jc_timer
              after == players'[1]
          IN  /\ after.jc_timer = 0 /\ ~after.jc_charging
              /\ IF hold * 1000 < SMALL_JUMP_CHARGE_RATIO * MAX_CHARGE_TIME
                 THEN after.jump_type = "Small" /\ after.vy = SMALL_JUMP_STRENGTH
                 ELSE after.jump_type = "High" /\ after.vy = HIGH_JUMP_STRENGTH]_vars

\* C18's case: the button was released after a hold below the threshold (16
\* or 85 ms) and the player has left the ground in a Small jump, JumpCharge
\* reset.
C18_Witness ==
    /\ state = "InGame" /\ frames = 1 /\ keys = {} /\ Len(players) = 1
    /\ players[1].jump_type = "Small" /\ players[1].y > GROUND_Y
    /\ players[1].jc_timer = 0 /\ ~players[1].jc_charging
    /\ players[1].y = GROUND_Y + Quot(SMALL_JUMP_STRENGTH * DT, 100)

----------------------------------------------------------------------------
(* Boss patterns from files: OnEnter(InGame) for either stage, again and      *)
(* again, with the stage's pattern file unreadable or holding any of the      *)
(* variants, and the first frames of the stage.                               *)

MaxLoadedFrames == 3

LoadedChords == {{}}

\* The contents of boss_patterns/stage_N_boss.json
LoadFiles ==
    {[attack |-> AttackNone, movement |-> Stationary],
     [attack |-> Sequence(<<"shoot", "wait">>, TRUE),
      movement |-> Waypoint(<<[x |-> 10000, y |-> 0]>>, 100, TRUE)],
     [attack |-> SingleShot(300, 300), movement |-> HorizontalPatrol(20000, 32000, 100)],
     [attack |-> TripleShot(200, 300, 30), movement |-> VerticalPatrol(-10000, -19800, 100)],
     [attack |-> RapidFire(500, 300, 2, 100),
      movement |-> Circular([x |-> 25000, y |-> -15000], 5000, 15708)]}

\* The transition into InGame for a stage of the run
EnterLoaded ==
    \E stage \in 1..MAX_STAGES :
        /\ ~transitioned
        /\ state' = "InGame"
        /\ transitioned' = TRUE
        /\ player_upgrades' = ExitUpgrades
        /\ tick' = NoTick
        /\ EnterInGameAt(stage, LoadFiles)
        /\ UNCHANGED <<keys, defeated_boss, selected_character, selected_character_index>>

UpdateLoaded == InGameFrame(LoadedChords, MaxLoadedFrames)

NextLoaded == EnterLoaded \/ UpdateLoaded

SpecLoaded == Init /\ [][NextLoaded]_vars

\* C19: pattern loading on entering InGame for stage N is non-fatal and
\* load-once.  If a pattern is registered for the stage the registry is left
\* as it is; if none is, a load is attempted, which either fails and leaves
\* the registry unchanged or registers a definition for that stage alone.
\* In every case the game goes on in InGame with a player and a boss: with no
\* pattern registered the boss has the compiled-in defaults (SingleShot
\* cooldown 2.0 speed 300, Stationary), otherwise both its patterns are those
\* of the registered definition.  No frame of a stage changes the registry.
C19_LoadOnceNonFatal ==
    [][IF state' = "InGame" /\ transitioned'
       THEN LET n == current_stage'
                old == pattern_registry
                new == pattern_registry'
            IN  /\ Len(players') = 1 /\ Len(bosses') = 1
                /\ n \in DOMAIN old => new = old
                /\ n \notin DOMAIN old
                   => \/ new = old
                      \/ /\ DOMAIN new = DOMAIN old \cup {n}
                         /\ \A s \in DOMAIN old : new[s] = old[s]
                         /\ new[n] \in LoadFiles
                /\ IF n \in DOMAIN new
                   THEN /\ bosses'[1].attack = convert_attack_pattern(new[n].attack)
                        /\ bosses'[1].movement = convert_movement_pattern(new[n].movement)
                   ELSE /\ bosses'[1].attack = SingleShot(2000, 300)
                        /\ bosses'[1].movement = Stationary
       ELSE pattern_registry' = pattern_registry]_vars

\* C19's case: stage 2's pattern was loaded earlier; the load for stage 1 has
\* just failed, the registry holds stage 2's pattern alone and the boss of
\* stage 1 has spawned with the defaults.
C19_Witness ==
    /\ state = "InGame" /\ transitioned /\ current_stage = 1
    /\ DOMAIN pattern_registry = {2}
    /\ Len(bosses) = 1 /\ Len(players) = 1
    /\ bosses[1].attack = DefaultAttackPattern /\ bosses[1].movement = DefaultMovementPattern

\* The fields of a file variant and of the internal variant agree (a
\* Vec2Config centre {x, y} being the Vec2 (x, y))
SameFields(config, pattern) ==
    /\ pattern.type = config.type
    /\ \A f \in DOMAIN config :
         IF f = "center" THEN pattern[f] = <<config[f].x, config[f].y>>
         ELSE f \in DOMAIN pattern /\ pattern[f] = config[f]

\* C20: a boss whose loaded attack definition is None or Sequence never spawns
\* a boss projectile in any tick, and a boss whose loaded movement definition
\* is Stationary or Waypoint is never moved by boss_movement (the only system
\* of the game that moves a boss); every other loaded variant has become the
\* internal variant of the same name with the same field values.
C20_InertAndConvertedPatterns ==
    [][state' = "InGame" /\ Len(bosses') = 1 /\ current_stage' \in DOMAIN pattern_registry'
       => LET loaded == pattern_registry'[current_stage']
              b == bosses'[1]
          IN  /\ loaded.attack.type \in {"None", "Sequence"}
                 => /\ b.attack.type = "None"
                    /\ tick'.shots = 0
                    /\ \A k \in 1..Len(projectiles') : ~projectiles'[k].boss
              /\ loaded.attack.type \notin {"None", "Sequence"}
                 => SameFields(loaded.attack, b.attack)
              /\ loaded.movement.type \in {"Stationary", "Waypoint"}
                 => /\ b.movement.type = "Stationary"
                    /\ IsUpdate /\ Len(bosses) = 1 => b.x = bosses[1].x /\ b.y = bosses[1].y
              /\ loaded.movement.type \notin {"Stationary", "Waypoint"}
                 => SameFields(loaded.movement, b.movement)]_vars

\* C20's case: the boss of a stage whose file says Sequence and Waypoint has
\* been through three frames with the player there: nothing was fired and
\* the boss is where it spawned.
C20_Witness ==
    /\ state = "InGame" /\ frames = 3 /\ Len(players) = 1 /\ Len(bosses) = 1
    /\ current_stage \in DOMAIN pattern_registry
    /\ pattern_registry[current_stage].attack.type = "Sequence"
    /\ pattern_registry[current_stage].movement.type = "Waypoint"
    /\ projectiles = <<>> /\ bosses[1].x = 30000 /\ bosses[1].y = -19800

----------------------------------------------------------------------------
(* Shooting with either weapon: the game in stage 1 with the character drawn, *)
(* the player as spawned and the shoot key pressed and released at will.      *)

MaxShootFrames == 9

ShootChords == {{}, {"KeyC"}, {"ArrowUp"}}

InitShoot ==
    /\ selected_character \in {"Breadman", "Cheeseman"}
    /\ selected_character_index = IF selected_character = "Breadman" THEN 0 ELSE 1
    /\ state = "InGame" /\ next_state = "Unchanged" /\ transitioned = TRUE
    /\ keys = {} /\ current_stage = 1 /\ player_upgrades = DefaultPlayerUpgrades
    /\ defeated_boss = "None" /\ show_win_screen = FALSE /\ selected_index = 0
    /\ pattern_registry = <<>>
    /\ players = <<SpawnedPlayer(DefaultPlayerUpgrades)>>
    /\ bosses = <<SpawnedBoss(<<>>, 1)>>
    /\ projectiles = <<>>
    /\ win_screens = 0 /\ tick = NoTick /\ frames = 0

UpdateShoot == InGameFrame(ShootChords, MaxShootFrames)

NextShoot == UpdateShoot

SpecShoot == InitShoot /\ [][NextShoot]_vars

\* C21: the shooting cooldown gates firing for both weapons: the non-charging
\* one spawns a projectile on a shoot press only if Shooting.timer <= 0, the
\* charging one can begin a charge only if Shooting.timer <= 0; so no player
\* projectile is spawned in a tick in which Shooting.timer > 0, and a player
\* projectile comes at least NORMAL_SHOT_COOLDOWN after the one before
\* (CHARGE_SHOT_COOLDOWN when that one was a charged shot).
C21_CooldownGatesFiring ==
    [][IsUpdate /\ state = "InGame" /\ Len(players) = 1 /\ Len(players') = 1
       => LET timer == players[1].shoot_timer - DT
          IN  /\ (selected_character = "Cheeseman" /\ tick'.fired > 0)
                 => JustPressed("KeyC") /\ timer <= 0
              /\ (selected_character = "Breadman" /\ ~players[1].cs_charging
                  /\ players'[1].cs_charging)
                 => JustPressed("KeyC") /\ timer <= 0
              /\ tick'.fired > 0
                 => /\ tick'.fired = 1
                    /\ timer <= 0
                    /\ tick'.gap < frames' * DT
                       => tick'.gap >= IF tick'.prev_charged THEN CHARGE_SHOT_COOLDOWN
                                       ELSE NORMAL_SHOT_COOLDOWN]_vars

\* C21's case: the charging weapon has just fired, the first tick after the
\* charged shot before it in which a release could fire again.
C21_Witness ==
    /\ state = "InGame" /\ selected_character = "Breadman" /\ Len(players) = 1
    /\ tick.fired = 1 /\ tick.prev_charged
    /\ tick.gap = CHARGE_SHOT_COOLDOWN + DT
    /\ players[1].shoot_timer = NORMAL_SHOT_COOLDOWN

\* C22: every Knockback attached to an entity, to the player by a damaging hit
\* or to the boss by a charged shot, displaces the entity in each tick, has its
\* timer decremented by dt in each tick and is removed once the timer is <= 0,
\* that is within KNOCKBACK_DURATION (plus one tick) of being attached; none
\* stays attached forever.  (A hit of the tick attaches a fresh Knockback.)
C22_KnockbackRunsOut ==
    [][IsUpdate /\ state = "InGame"
       => /\ \A i \in 1..Len(players) :
               (players[i].has_kb /\ i <= Len(players') /\ tick'.hits = 0)
               => LET timer == players[i].kb_timer - DT
                  IN  /\ players'[i].x = Clamp(players[i].x + Quot(players[i].kb_vx * DT, 100),
                                               BOUNDARY_LEFT, BOUNDARY_RIGHT)
                      /\ IF timer <= 0 THEN ~players'[i].has_kb
                         ELSE players'[i].has_kb /\ players'[i].kb_timer = timer
          /\ \A j \in 1..Len(bosses) :
               (bosses[j].has_kb /\ j <= Len(bosses') /\ tick'.dealt = <<>>)
               => LET timer == bosses[j].kb_timer - DT
                  IN  /\ bosses'[j].x = Clamp(bosses[j].x + Quot(bosses[j].kb_vx * DT, 100),
                                              BOUNDARY_LEFT, BOUNDARY_RIGHT)
                      /\ IF timer <= 0 THEN ~bosses'[j].has_kb
                         ELSE bosses'[j].has_kb /\ bosses'[j].kb_timer = timer]_vars

\* C23: in every tick in which the player carries Dash, the dash is the only
\* movement applied to the player: x changes by exactly dash.direction x
\* DASH_SPEED x dt, and y, the vertical velocity, jump_type and JumpCharge are
\* unchanged (no gravity, no jump charging or release, no horizontal input, no
\* other displacement); a dash starts only on the ground with the down key
\* held and jump just pressed, is not started again while one is active, and
\* is removed once DASH_DURATION has elapsed.
C23_DashOnlyMovement ==
    [][IsUpdate /\ state = "InGame" /\ Len(players) = 1 /\ Len(players') = 1
       => LET p == players[1]
              q == players'[1]
          IN  /\ p.has_dash
                 => /\ q.x = p.x + Quot(p.dash_dir * DASH_SPEED * DT, 10000)
                    /\ q.y = p.y /\ q.vy = p.vy /\ q.jump_type = p.jump_type
                    /\ q.jc_timer = p.jc_timer /\ q.jc_charging = p.jc_charging
                    /\ IF p.dash_timer - DT <= 0 THEN ~q.has_dash
                       ELSE /\ q.has_dash /\ q.dash_timer = p.dash_timer - DT
                            /\ q.dash_dir = p.dash_dir
              /\ (~p.has_dash /\ q.has_dash)
                 => /\ "ArrowDown" \in keys' /\ (JustPressed("Space") \/ JustPressed("KeyX"))
                    /\ p.y <= GROUND_Y
                    /\ q.dash_timer = DASH_DURATION]_vars

\* The Update systems of InGame in the order in which PlayerPlugin::build lists
\* them, each .after() edge with its sync point
DeclaredOrder ==
    <<"player_movement", "apply_deferred", "apply_knockback", "player_shooting",
      "projectile_movement", "boss_movement", "boss_attacks", "boss_projectile_movement",
      "apply_deferred", "boss_projectile_player_collision", "player_boss_collision",
      "projectile_boss_collision", "persist_player_hp", "check_game_outcome">>

\* C24: in every InGame tick the systems take effect in one fixed order (player
\* movement, knockback, boss attacks, the collision systems, the outcome
\* check): check_game_outcome observes the Hp values that the collision
\* systems of the same tick produced, and the state after the tick is the one
\* function of the state before it and of the input that the listed order
\* gives.
C24_FixedSystemOrder ==
    [][IsUpdate /\ state = "InGame" /\ Len(players) = 1 /\ Len(bosses) = 1
       => /\ Len(players') = 1 /\ Len(bosses') = 1
          /\ tick'.seen.player_dead = (players'[1].hp <= 0)
          /\ tick'.seen.boss_dead = (bosses'[1].hp <= 0)
          /\ LET w == RunSchedule(DeclaredOrder, 1, World, Input(keys, keys'))
             IN  /\ players' = w.players /\ bosses' = w.bosses
                 /\ projectiles' = w.projectiles /\ next_state' = w.next_state
                 /\ defeated_boss' = w.defeated /\ player_upgrades' = w.upgrades]_vars

----------------------------------------------------------------------------
(* boss_movement on its own: a boss whose movement pattern comes from a       *)
(* pattern file, ticked from where spawn_boss puts it.  A file can hold any   *)
(* numbers: bounds inside the world, partly outside it, wholly outside it,    *)
(* left of right or right of left, and circles that leave the world.          *)

MovementPatterns ==
    {HorizontalPatrol(20000, 33000, 500), HorizontalPatrol(-10000, 40000, 2000),
     HorizontalPatrol(-50000, 10000, 3000), HorizontalPatrol(20000, 30000, 2500),
     HorizontalPatrol(40000, 50000, 500), HorizontalPatrol(-50000, -40000, 3000),
     HorizontalPatrol(33000, 20000, 500), HorizontalPatrol(50000, 40000, 500),
     VerticalPatrol(-10000, -25000, 500), VerticalPatrol(30000, 0, 1000),
     VerticalPatrol(-30000, -40000, 500), VerticalPatrol(40000, 30000, 2000),
     VerticalPatrol(-19800, 0, 500),
     Circular([x |-> 30000, y |-> -10000], 10000, 15700),
     Circular([x |-> 0, y |-> 0], 40000, 15700), Stationary,
     Waypoint(<<[x |-> 50000, y |-> 0]>>, 500, TRUE)}

InitPatrol ==
    \E movement \in MovementPatterns :
        InGameWith(SpawnedPlayer(DefaultPlayerUpgrades), <<>>,
                   1 :> [attack |-> AttackNone, movement |-> movement])

MaxPatrolFrames == 12

\* One run of boss_movement
BossMovementTick ==
    \E w \in {boss_movement(World, Input(keys, {}))} :
      /\ state = "InGame"
      /\ frames < MaxPatrolFrames
      /\ frames' = frames + 1
      /\ transitioned' = FALSE
      /\ bosses' = w.bosses
      /\ UNCHANGED <<state, next_state, keys, current_stage, player_upgrades, defeated_boss,
                     show_win_screen, selected_index, selected_character,
                     selected_character_index, pattern_registry, players, projectiles,
                     win_screens, tick>>

NextPatrol == BossMovementTick

SpecPatrol == InitPatrol /\ [][NextPatrol]_vars

\* C25: for HorizontalPatrol with left_bound < right_bound and positive speed
\* (and VerticalPatrol on y alike) the boss's x is in [max(left_bound,
\* BOUNDARY_LEFT), min(right_bound, BOUNDARY_RIGHT)] after every boss_movement
\* update, BossMovementState.direction is +1 or -1, and it is +1 whenever x
\* has reached the effective left bound, -1 whenever x has reached the
\* effective right bound (from which the boss goes to the other bound, again
\* and again).
C25_PatrolBetweenEffectiveBounds ==
    [][IsUpdate /\ state = "InGame"
       => \A j \in 1..Len(bosses') :
            LET b == bosses'[j]
                m == b.movement
            IN  /\ (m.type = "HorizontalPatrol" /\ m.left_bound < m.right_bound /\ m.speed > 0)
                   => LET effective_left == Max(m.left_bound, BOUNDARY_LEFT)
                          effective_right == Min(m.right_bound, BOUNDARY_RIGHT)
                      IN  /\ effective_left <= b.x /\ b.x <= effective_right
                          /\ b.direction \in {1, -1}
                          /\ b.x = effective_left => b.direction = 1
                          /\ b.x = effective_right => b.direction = -1
                /\ (m.type = "VerticalPatrol" /\ m.bottom_bound < m.top_bound /\ m.speed > 0)
                   => LET effective_bottom == Max(m.bottom_bound, BOUNDARY_BOTTOM)
                          effective_top == Min(m.top_bound, BOUNDARY_TOP)
                      IN  /\ effective_bottom <= b.y /\ b.y <= effective_top
                          /\ b.direction \in {1, -1}
                          /\ b.y = effective_bottom => b.direction = 1
                          /\ b.y = effective_top => b.direction = -1]_vars

\* C26: for every movement pattern and every choice of its parameters that can
\* be loaded (patrol bounds partly or wholly outside the world, left_bound >
\* right_bound, circles that extend beyond the world) the boss is inside
\* [BOUNDARY_LEFT, BOUNDARY_RIGHT] x [BOUNDARY_BOTTOM, BOUNDARY_TOP] after every
\* boss_movement update.
C26_BossInsideBoundaries ==
    state = "InGame" /\ ~transitioned
        => \A j \in 1..Len(bosses) : ~OutOfBounds(bosses[j].x, bosses[j].y)

----------------------------------------------------------------------------
(* Jumping and landing: the game in stage 1 with the player either on the     *)
(* ground with the jump button held (beside the boss or away from it), or     *)
(* falling in a jump, one tick above the ground.  The frame time varies from  *)
(* frame to frame in the game, so a fall can end exactly at ground level as   *)
(* well as below it.                                                          *)

MaxLandFrames == 14

LandChords == {{}, {"Space"}}

\* JumpCharge.timer of the held button: below and above the small-jump threshold
LandHolds == {16, 150}

LandStarts == {0, 32000}

\* Falling players 10 px above the ground: the y velocity and the jump type
\* with which this tick's step ends at the ground (-40, 200, -200) or below it
Falls == {[vy |-> -40, jump_type |-> "Small"], [vy |-> 200, jump_type |-> "High"],
          [vy |-> -1000, jump_type |-> "Small"], [vy |-> -2000, jump_type |-> "High"],
          [vy |-> -200, jump_type |-> "None"]}

InitLand ==
    \/ \E hold \in LandHolds, x \in LandStarts :
         InGameHeld([SpawnedPlayer(DefaultPlayerUpgrades) EXCEPT
                        !.x = x, !.jc_charging = TRUE, !.jc_timer = hold],
                    <<>>, <<>>, {"Space"})
    \/ \E fall \in Falls :
         InGameAt([SpawnedPlayer(DefaultPlayerUpgrades) EXCEPT
                      !.y = GROUND_Y + 1000, !.vy = fall.vy, !.jump_type = fall.jump_type],
                  <<>>)

UpdateLand == InGameFrame(LandChords, MaxLandFrames)

NextLand == UpdateLand

SpecLand == InitLand /\ [][NextLand]_vars

\* C27: a jump impulse is given only in a tick in which the player is on the
\* ground (y <= GROUND_Y) and a charge is released; a release in the air gives
\* no impulse and only resets the charge; the charge timer does not grow in
\* the air; whenever the falling player touches or crosses ground level, y is
\* GROUND_Y, the vertical velocity 0 and jump_type None, so that a player on
\* the ground at the end of a tick has jump_type None unless a jump started in
\* that tick.
C27_JumpOnlyFromGround ==
    [][IsUpdate /\ state = "InGame" /\ Len(players) = 1 /\ Len(players') = 1
       /\ ~players[1].has_dash
       => LET p == players[1]
              q == players'[1]
              is_on_ground == p.y <= GROUND_Y
              released == p.jc_charging /\ "Space" \in keys \ keys'
              impulse == q.vy # p.vy /\ q.vy \in {SMALL_JUMP_STRENGTH, HIGH_JUMP_STRENGTH}
          IN  /\ impulse => is_on_ground /\ released
              /\ (released /\ ~is_on_ground)
                 => ~impulse /\ ~q.jc_charging /\ q.jc_timer = 0
              /\ ~is_on_ground => q.jc_timer <= p.jc_timer
              /\ (~is_on_ground /\ q.y <= GROUND_Y)
                 => q.y = GROUND_Y /\ q.vy = 0 /\ q.jump_type = "None"
              /\ (q.y <= GROUND_Y /\ q.jump_type # "None")
                 => is_on_ground /\ released]_vars

----------------------------------------------------------------------------
(* Aiming: as for shooting, with the arrow keys that turn the player.         *)

MaxAimFrames == 5

AimChords ==
    {{}, {"KeyC"}, {"ArrowUp"}, {"ArrowLeft"}, {"ArrowRight", "KeyC"},
     {"ArrowLeft", "ArrowUp", "KeyC"}}

UpdateAim == InGameFrame(AimChords, MaxAimFrames)

NextAim == UpdateAim

SpecAim == InitShoot /\ [][NextAim]_vars

\* The directions a player projectile can have: up, right, left
ShotDirections == {<<0, 1000>>, <<1000, 0>>, <<-1000, 0>>}

C29_ChargeLevelAndClass ==
    [][IsUpdate /\ state = "InGame" /\ selected_character = "Breadman"
       /\ Len(players) = 1 /\ Len(players') = 1
       => LET p == players[1]
              q == players'[1]
              release == p.cs_charging /\ "KeyC" \in keys \ keys'
          IN  /\ 0 <= q.cs_timer /\ q.cs_timer <= CHARGE_SHOT_MAX_TIME
              /\ tick'.fired = IF release THEN 1 ELSE 0
              /\ release
                 => LET shot == tick'.spawned[1]
                        is_charged_shot == p.cs_timer >= CHARGE_SHOT_MIN_TIME
                    IN  /\ shot.charge_level = Quot(p.cs_timer * 1000, CHARGE_SHOT_MAX_TIME)
                        /\ 0 <= shot.charge_level /\ shot.charge_level <= 1000
                        /\ ~q.cs_charging /\ q.cs_timer = 0
                        /\ tick'.charged = is_charged_shot
                        /\ q.shoot_timer = IF is_charged_shot THEN CHARGE_SHOT_COOLDOWN
                                           ELSE NORMAL_SHOT_COOLDOWN
                        /\ is_charged_shot <=> IsChargedProjectile(shot)
              /\ \A k \in 1..Len(tick'.dealt) :
                   LET hit == tick'.dealt[k]
                   IN  /\ hit.damage > PLAYER_PROJECTILE_DAMAGE
                          <=> hit.charge_level >= ChargedThreshold
                       /\ hit.charge_level >= ChargedThreshold => bosses'[1].has_kb
                       /\ hit.charge_level < ChargedThreshold
                          => bosses'[1].has_kb = bosses[1].has_kb]_vars

\* C29's case: a shot released after exactly CHARGE_SHOT_MIN_TIME, charged at
\* fire time, has just hit the boss with the bonus damage and the knockback.
C29_Witness ==
    /\ state = "InGame" /\ selected_character = "Breadman"
    /\ tick.prev_charged /\ tick.fired = 0
    /\ Len(tick.dealt) = 1
    /\ tick.dealt[1].charge_level = ChargedThreshold
    /\ tick.dealt[1].damage > PLAYER_PROJECTILE_DAMAGE
    /\ bosses[1].has_kb

----------------------------------------------------------------------------
(* Player projectiles against a boss at the edge of the world: stage 1 with   *)
(* a stationary boss or one that a file with crossed bounds sends to and fro  *)
(* between x = 200 and x = 330, the player starting at a drawn place, and the *)
(* orders of the Update systems that put                                      *)
(* projectile_boss_collision before projectile_movement, or after it with no  *)
(* sync point in between, beside the others.                                  *)

MaxHitFrames == 7

HitStarts == {10050, 25050, 31000}

HitPatterns == {Stationary, HorizontalPatrol(33000, 20000, 500)}

CollisionFirstOrder ==
    <<"projectile_boss_collision", "player_movement", "player_shooting",
      "projectile_movement", "boss_movement", "boss_attacks", "boss_projectile_movement",
      "apply_deferred", "apply_knockback", "boss_projectile_player_collision",
      "player_boss_collision", "persist_player_hp", "check_game_outcome">>

LateMovementOrder ==
    <<"player_movement", "player_shooting", "boss_movement", "boss_attacks",
      "boss_projectile_movement", "apply_deferred", "apply_knockback",
      "boss_projectile_player_collision", "player_boss_collision", "projectile_movement",
      "projectile_boss_collision", "persist_player_hp", "check_game_outcome">>

HitOrders == UpdateOrders \cup {CollisionFirstOrder, LateMovementOrder}

InitHit ==
    \E x \in HitStarts, movement \in HitPatterns :
        InGameWith([SpawnedPlayer(DefaultPlayerUpgrades) EXCEPT !.x = x], <<>>,
                   1 :> [attack |-> AttackNone, movement |-> movement])

UpdateHit == InGameFrameIn(HitOrders, GameChords, MaxHitFrames)

NextHit == UpdateHit

SpecHit == InitHit /\ [][NextHit]_vars


\* C30: each player projectile reduces the boss's Hp at most once in its
\* lifetime: the Update in which it hits the boss also takes it out of the
\* world, marked or not, so no later projectile_boss_collision sees it, also
\* when projectile_movement despawns it in the same Update for leaving the
\* boundaries; the boss's Hp falls by the hits of the Update and by nothing else.
C30_ProjectileHitsOnce ==
    [][IsUpdate /\ state = "InGame"
       => LET InFlight(prs) == Cardinality({k \in 1..Len(prs) : ~prs[k].boss})
              hits == tick'.dealt
              HpAfter[i \in 0..Len(hits)] ==
                  IF i = 0 THEN bosses[1].hp ELSE Max(HpAfter[i - 1] - hits[i].damage, 0)
          IN  /\ Len(hits) <= InFlight(projectiles) + tick'.fired
              /\ InFlight(projectiles') <= InFlight(projectiles) + tick'.fired - Len(hits)
              /\ \A k \in 1..Len(projectiles') : ~projectiles'[k].has_hit
              /\ bosses'[1].hp = HpAfter[Len(hits)]]_vars

\* C30's case: the one projectile in flight has hit the boss at the edge of
\* the world in the Update in which projectile_movement had already queued its
\* despawn, and is gone.
C30_Witness ==
    /\ state = "InGame"
    /\ tick.twice = 1
    /\ bosses[1].x + BOSS_SIZE[1] \div 2 > BOUNDARY_RIGHT - BASE_PROJECTILE_SIZE[1]
    /\ Len(tick.dealt) = 1
    /\ bosses[1].hp = bosses[1].max - tick.dealt[1].damage
    /\ projectiles = <<>>

----------------------------------------------------------------------------
(* The two systems that damage the player on their own, in either order: the  *)
(* player hurt before, beside the boss or away from it, immune or not, and    *)
(* one or two projectiles of the boss on the player or off it.                *)

MaxStrikeFrames == 2

\* Hp after one and after six hits of a boss projectile
StrikeHps == {85, 10}

\* Invincibility.timer at the start of the tick (0: no Invincibility)
StrikeTimers == {0, 100, 200, 700}

\* The player's x: away from the boss and overlapping it
StrikeStarts == {0, 28000}

\* Offset from the player and direction of a projectile of the boss
StrikeShots ==
    {[dx |-> 0, dy |-> 0, dir |-> <<-1000, 0>>],
     [dx |-> 2000, dy |-> 3000, dir |-> <<-707, -707>>],
     [dx |-> 2100, dy |-> 0, dir |-> <<-1000, 0>>]}

InitStrike ==
    \E hp \in StrikeHps, timer \in StrikeTimers, x \in StrikeStarts,
       shots \in (StrikeShots \X StrikeShots) \cup {<<shot>> : shot \in StrikeShots} :
        LET p == [SpawnedPlayer(DefaultPlayerUpgrades) EXCEPT
                     !.x = x, !.hp = hp,
                     !.has_inv = timer > 0, !.inv_timer = timer,
                     !.has_kb = timer > 0, !.kb_vx = IF timer > 0 THEN -3000 ELSE 0,
                     !.kb_timer = timer]
        IN  InGameAt(p, [k \in 1..Len(shots) |->
                           NewProjectile(p.x + shots[k].dx, p.y + shots[k].dy,
                                         shots[k].dir[1], shots[k].dir[2], 0, TRUE, 300)])

StrikeOrders ==
    {<<"boss_projectile_player_collision", "player_boss_collision">>,
     <<"player_boss_collision", "boss_projectile_player_collision">>}

\* One run of the two systems and of the commands they queued
StrikeTick ==
    \E order \in StrikeOrders :
      \E w \in {RunSchedule(order, 1, World, Input(keys, {}))} :
        /\ state = "InGame"
        /\ frames < MaxStrikeFrames
        /\ frames' = frames + 1
        /\ transitioned' = FALSE
        /\ players' = w.players
        /\ bosses' = w.bosses
        /\ projectiles' = w.projectiles
        /\ tick' = [NoTick EXCEPT !.decrements = w.decrements, !.hits = w.hits,
                                  !.body_hits = w.body_hits]
        /\ UNCHANGED <<state, next_state, keys, current_stage, player_upgrades,
                       defeated_boss, show_win_screen, selected_index, selected_character,
                       selected_character_index, pattern_registry, win_screens>>

NextStrike == StrikeTick

SpecStrike == InitStrike /\ [][NextStrike]_vars

\* C31: a boss projectile is removed by boss_projectile_player_collision only
\* in a tick in which it damages the player: the boss projectiles that leave
\* the world are as many as the hits they made; a tick with one hit, made by a
\* boss projectile, leaves the player with Hp lowered by 15 x
\* defense_multiplier and floored at 0, Invincibility, a Knockback along the
\* projectile's direction, and that projectile gone; and when every gate of
\* the tick answers immune, Hp, Knockback and the projectiles are as before.
C31_BossProjectileHit ==
    [][IsUpdate /\ state = "InGame" /\ Len(players) = 1 /\ Len(players') = 1
       => LET p == players[1]
              q == players'[1]
              projectile_hits == tick'.hits - tick'.body_hits
              immune == p.has_inv /\ p.inv_timer - DT * tick'.decrements > 0
              Knockback(e) == <<e.has_kb, e.kb_vx, e.kb_vy, e.kb_timer>>
          IN  /\ Len(projectiles') = Len(projectiles) - projectile_hits
              /\ projectile_hits > 0 => q.hp < p.hp \/ p.hp = 0
              /\ (tick'.hits = 1 /\ projectile_hits = 1)
                 => \E k \in 1..Len(projectiles) :
                      LET pr == projectiles[k]
                      IN  /\ pr.boss
                          /\ check_aabb_collision(pr.x, pr.y, PROJECTILE_SIZE,
                                                  p.x, p.y, PLAYER_SIZE)
                          /\ q.hp = Max(p.hp - Damage(BASE_DAMAGE, player_upgrades), 0)
                          /\ q.has_inv /\ q.inv_timer = INVINCIBILITY_DURATION
                          /\ Knockback(q) = <<TRUE, Quot(pr.dx * KNOCKBACK_FORCE, 100),
                                              Quot(pr.dy * KNOCKBACK_FORCE, 100),
                                              KNOCKBACK_DURATION>>
                          /\ projectiles' = SelectIdx(projectiles,
                                                      (1..Len(projectiles)) \ {k})
              /\ immune
                 => /\ q.hp = p.hp
                    /\ Knockback(q) = Knockback(p)
                    /\ projectiles' = projectiles]_vars


----------------------------------------------------------------------------
(* The push of a body contact: the boss of a stage whose file makes it patrol *)
(* upwards from the ground, the player at a drawn place around the boss's     *)
(* starting place, on the ground or in the air, and boss_movement followed by *)
(* player_boss_collision.                                                     *)

MaxPushFrames == 2

\* Offsets of the player from the boss's starting place
PushOffsets == {-3100, -2000, -1000, 0, 1000, 2000, 3100} \X {0, 3000, 5000, 6000, 8000, 11000}

InitPush ==
    \E d \in PushOffsets :
        LET b == SpawnedBoss(<<>>, 1)
        IN  InGameWith([SpawnedPlayer(DefaultPlayerUpgrades) EXCEPT !.x = b.x + d[1],
                                                                    !.y = b.y + d[2]],
                       <<>>,
                       1 :> [attack |-> AttackNone,
                             movement |-> VerticalPatrol(-10000, -25000, 500)])

\* One run of boss_movement, of player_boss_collision and of its commands
PushTick ==
    \E w \in {RunSchedule(<<"boss_movement", "player_boss_collision">>, 1, World,
                          Input(keys, {}))} :
        /\ state = "InGame"
        /\ frames < MaxPushFrames
        /\ frames' = frames + 1
        /\ transitioned' = FALSE
        /\ players' = w.players
        /\ bosses' = w.bosses
        /\ tick' = [NoTick EXCEPT !.decrements = w.decrements, !.hits = w.hits,
                                  !.body_hits = w.body_hits]
        /\ UNCHANGED <<state, next_state, keys, current_stage, player_upgrades,
                       defeated_boss, show_win_screen, selected_index, selected_character,
                       selected_character_index, pattern_registry, projectiles, win_screens>>

NextPush == PushTick

SpecPush == InitPush /\ [][NextPush]_vars

\* C32: with (dx, dy) the player's position minus the boss's at a body hit,
\* the Knockback inserted by player_boss_collision is KNOCKBACK_FORCE along:
\* (-1, 0) when dx = dy = 0; an upward vector when |dy| > |dx| and dy > 0, a
\* downward one when |dy| > |dx| and dy < 0; a sideways vector with a positive
\* vertical part when |dy| <= |dx|; in every case with the horizontal sign +1
\* if dx > 0 and -1 otherwise, so that the horizontal part points away from
\* the boss when dx /= 0.
C32_KnockbackDirection ==
    [][IsUpdate /\ state = "InGame" /\ tick'.body_hits = 1
       => LET p == players[1]
              q == players'[1]
              b == bosses'[1]
              dx == p.x - b.x
              dy == p.y - b.y
              horizontal == IF dx > 0 THEN 1 ELSE -1
              \* KNOCKBACK_FORCE in the unit of kb_vx and kb_vy
              force == KNOCKBACK_FORCE * 10
              length2 == q.kb_vx * q.kb_vx + q.kb_vy * q.kb_vy
          IN  /\ q.has_kb /\ q.kb_timer = KNOCKBACK_DURATION
              /\ (force - 10) * (force - 10) <= length2
              /\ length2 <= (force + 10) * (force + 10)
              /\ (dx = 0 /\ dy = 0) => q.kb_vx = -force /\ q.kb_vy = 0
              /\ (dx # 0 \/ dy # 0)
                 => /\ Sign(q.kb_vx) = horizontal
                    /\ (Abs(dy) > Abs(dx) /\ dy > 0)
                       => q.kb_vy > 0 /\ q.kb_vy > Abs(q.kb_vx)
                    /\ (Abs(dy) > Abs(dx) /\ dy < 0)
                       => q.kb_vy < 0 /\ -q.kb_vy > Abs(q.kb_vx)
                    /\ Abs(dy) <= Abs(dx)
                       => q.kb_vy > 0 /\ q.kb_vy < Abs(q.kb_vx)
              /\ dx # 0 => q.kb_vx * dx > 0]_vars

\* C32's case: the player, below the boss and to its right, has been pushed
\* down and to the right.
C32_Witness ==
    /\ state = "InGame" /\ tick.body_hits = 1
    /\ players[1].x > bosses[1].x /\ players[1].y < bosses[1].y
    /\ bosses[1].y - players[1].y > players[1].x - bosses[1].x
    /\ players[1].has_kb /\ players[1].kb_vx > 0 /\ players[1].kb_vy < 0


\* C33: within one tick the player's Hp is reduced by at most one hit: of
\* several boss projectiles that overlap a player who is not invincible, or of
\* a boss projectile and the boss's body, only one deals damage.
C33_OneHitPerTick ==
    [][IsUpdate /\ state = "InGame" /\ Len(players) = 1 /\ Len(players') = 1
       => /\ tick'.hits <= 1
          /\ players[1].hp - players'[1].hp
               <= Max(Damage(BASE_DAMAGE, player_upgrades),
                      Damage(BOSS_COLLISION_DAMAGE, player_upgrades))]_vars


\* C34: whenever the game state is InGame, 1 <= CurrentStage <= MAX_STAGES,
\* and the pattern registry has been asked for no stage outside 1..MAX_STAGES
\* ("stage_0" or a stage beyond the last), whatever the sequence of boss
\* defeats, upgrade confirmations, deaths and restarts.
C34_StageInRange ==
    /\ state = "InGame" => 1 <= current_stage /\ current_stage <= MAX_STAGES
    /\ DOMAIN pattern_registry \subseteq 1..MAX_STAGES

\* C34's case: stage 1 of a new run, begun after a run that reached the last
\* stage (whose pattern is still in the registry).
C34_Witness ==
    /\ state = "InGame"
    /\ current_stage = 1
    /\ MAX_STAGES \in DOMAIN pattern_registry


\* C35: whenever the game state is GameWin or StageUpgrade,
\* DefeatedBoss.boss_type is the type of the boss whose Hp reached 0 in the
\* stage just played: GameWin is entered from InGame with a boss at Hp 0
\* whose type is the stored one, the stored type stays while the state is
\* GameWin or StageUpgrade, and the confirmation of the acquire-weapon upgrade
\* sets has_boss_weapon with that type.
C35_DefeatedBossKnown ==
    [][/\ state' \in {"GameWin", "StageUpgrade"} => defeated_boss' # "None"
       /\ (state = "InGame" /\ state' = "GameWin")
          => \E j \in 1..Len(bosses) :
               bosses[j].hp <= 0 /\ defeated_boss' = bosses[j].boss_type
       /\ state \in {"GameWin", "StageUpgrade"} => defeated_boss' = defeated_boss
       /\ (state = "StageUpgrade" /\ IsUpdate /\ Confirmed /\ selected_index' = 1)
          => /\ player_upgrades'.has_boss_weapon
             /\ player_upgrades'.boss_weapon_type = defeated_boss
             /\ player_upgrades'.boss_weapon_type # "None"]_vars

\* C35's case: the weapon of the defeated boss has just been acquired on the
\* upgrade screen.
C35_Witness ==
    /\ state = "StageUpgrade" /\ next_state = "InGame"
    /\ selected_index = 1
    /\ player_upgrades.has_boss_weapon
    /\ player_upgrades.boss_weapon_type = defeated_boss
    /\ defeated_boss = "Default"


-----------------------------------------------------------------------------
(* C36 *)

\* C36: in every tick of InGame there is exactly one Player and one Boss
\* entity, so the single-entity queries never fail; outside InGame no Player,
\* Boss or projectile entity of either side exists, and a stage entered begins
\* without a projectile of the stage or run before it.
C36_OnePlayerOneBoss ==
    /\ state = "InGame" => Len(players) = 1 /\ Len(bosses) = 1
    /\ state # "InGame" => players = <<>> /\ bosses = <<>> /\ projectiles = <<>>
    /\ state = "InGame" /\ transitioned => projectiles = <<>>

\* The second stage is entered after the first was left: one player, one boss
\* and no projectile
C36_Witness ==
    /\ state = "InGame" /\ transitioned /\ current_stage = 2
    /\ Len(players) = 1 /\ Len(bosses) = 1 /\ projectiles = <<>>


-----------------------------------------------------------------------------
(* C37 *)

\* C37: the player never begins a stage dead: on every entry into InGame, the
\* first stage and every stage reached through StageUpgrade with either
\* upgrade, the spawned player has Hp.current > 0, in whichever order the
\* collision systems and check_game_outcome ran in the tick the boss was
\* defeated.
C37_SpawnedAlive ==
    state = "InGame" /\ transitioned => \A i \in DOMAIN players : players[i].hp > 0


-----------------------------------------------------------------------------
(* The end of a stage: the game in stage 1 with the boss one hit from its     *)
(* death and a player projectile on its way to it, a projectile of the boss   *)
(* on its way to the player, and the player at full Hp or one hit from death; *)
(* from there the whole game.                                                 *)

MaxLateFrames == 4

\* The player's Hp: as spawned, and after six hits of BASE_DAMAGE
LateHps == {100, 100 - 6 * BASE_DAMAGE}
\* Where the player's projectile and the boss's projectile are
LateShotXs == {22000, 27000}
LateIncomingXs == {8000, 16000}

InitLate ==
    \E hp \in LateHps, shot \in LateShotXs, incoming \in LateIncomingXs :
        /\ state = "InGame"
        /\ next_state = "Unchanged"
        /\ transitioned = FALSE
        /\ keys = {}
        /\ current_stage = 1
        /\ player_upgrades = [DefaultPlayerUpgrades EXCEPT !.current_hp = hp]
        /\ defeated_boss = "None"
        /\ show_win_screen = FALSE
        /\ selected_index = 0
        /\ selected_character_index = 0
        /\ selected_character = "Breadman"
        /\ pattern_registry = <<>>
        /\ players = <<[SpawnedPlayer(DefaultPlayerUpgrades) EXCEPT !.hp = hp]>>
        /\ bosses = <<[SpawnedBoss(<<>>, 1) EXCEPT
                          !.hp = @ - ProjectileDamage(NewProjectile(0, 0, 1000, 0, 0, FALSE, 0))]>>
        /\ projectiles = <<NewProjectile(shot, -19800, 1000, 0, 0, FALSE, 0),
                           NewProjectile(incoming, -19800, -1000, 0, 0, TRUE, 300)>>
        /\ win_screens = 0
        /\ tick = NoTick
        /\ frames = 0

UpdateLate == InGameFrame(GameChords, MaxLateFrames)

NextLate ==
    \/ StateTransition
    \/ UpdateCharacterSelection
    \/ UpdateStageUpgrade
    \/ UpdateGameEnd
    \/ UpdateLate

SpecLate == InitLate /\ [][NextLate]_vars


-----------------------------------------------------------------------------
(* C38 *)

\* C38: damage is cross-side only.  In an Update of InGame the boss's Hp changes
\* only by hits of projectile_boss_collision, of which there are no more than
\* player projectiles in flight or fired, so never when only projectiles of the
\* boss are around, also when they overlap the boss where they were spawned; the
\* player's Hp changes only by hits of player_boss_collision and
\* boss_projectile_player_collision, the latter no more than boss projectiles in
\* flight or spawned, so never by the player's own projectiles.
C38_CrossSideDamage ==
    [][IsUpdate /\ state = "InGame"
       => LET own == {k \in 1..Len(projectiles) : ~projectiles[k].boss}
              theirs == {k \in 1..Len(projectiles) : projectiles[k].boss}
          IN  /\ own = {} /\ tick'.fired = 0 => bosses'[1].hp = bosses[1].hp
              /\ bosses'[1].hp # bosses[1].hp => tick'.dealt # <<>>
              /\ Len(tick'.dealt) <= Cardinality(own) + tick'.fired
              /\ theirs = {} /\ tick'.shots = 0 /\ tick'.body_hits = 0
                     => players'[1].hp = players[1].hp
              /\ players'[1].hp # players[1].hp => tick'.hits > 0
              /\ tick'.hits - tick'.body_hits <= Cardinality(theirs) + tick'.shots]_vars

\* C38's case: after an Update in which both sides fired, a projectile of the
\* boss lies on the boss and a projectile of the player on the player, and
\* neither has lost Hp.
C38_Witness ==
    /\ state = "InGame" /\ ~transitioned
    /\ tick.shots > 0 /\ tick.fired > 0
    /\ \E k \in 1..Len(projectiles) :
          /\ projectiles[k].boss
          /\ check_aabb_collision(projectiles[k].x, projectiles[k].y, PROJECTILE_SIZE,
                                  bosses[1].x, bosses[1].y, BOSS_SIZE)
    /\ \E k \in 1..Len(projectiles) :
          /\ ~projectiles[k].boss
          /\ check_aabb_collision(projectiles[k].x, projectiles[k].y,
                                  ProjectileSize(projectiles[k]),
                                  players[1].x, players[1].y, PLAYER_SIZE)
    /\ bosses[1].hp = bosses[1].max
    /\ players[1].hp = players[1].max


-----------------------------------------------------------------------------
(* A projectile fired while the player stands where the boss stands: the game *)
(* in stage 1 with the player on the way to the boss, a step or two from it,  *)
(* and the boss about to fire; the player keeps walking or stops during the   *)
(* first frames and stands from then on, and the frames go on for as long as  *)
(* the stage lasts.                                                           *)

\* The frames in which a key may be held
MaxLingerMoves == 2

LingerChords == {{}, {"ArrowRight"}}
LingerStarts == {26000, 28000}
LingerTimers == {100, 200}

InitLinger ==
    \E x \in LingerStarts, timer \in LingerTimers :
        /\ state = "InGame"
        /\ next_state = "Unchanged"
        /\ transitioned = FALSE
        /\ keys = {"ArrowRight"}
        /\ current_stage = 1
        /\ player_upgrades = DefaultPlayerUpgrades
        /\ defeated_boss = "None"
        /\ show_win_screen = FALSE
        /\ selected_index = 0
        /\ selected_character_index = 0
        /\ selected_character = "Breadman"
        /\ pattern_registry = <<>>
        /\ players = <<[SpawnedPlayer(DefaultPlayerUpgrades) EXCEPT !.x = x]>>
        /\ bosses = <<[SpawnedBoss(<<>>, 1) EXCEPT !.timer = timer]>>
        /\ projectiles = <<>>
        /\ win_screens = 0
        /\ tick = NoTick
        /\ frames = 0

LingerTick ==
    \E chord \in IF frames < MaxLingerMoves THEN LingerChords ELSE {{}},
       order \in UpdateOrders :
      \E w \in {RunSchedule(order, 1, World, Input(keys, chord))} :
        /\ state = "InGame"
        /\ Frame(chord)
        /\ frames' = IF frames < MaxLingerMoves THEN frames + 1 ELSE frames
        /\ players' = w.players
        /\ bosses' = w.bosses
        /\ projectiles' = w.projectiles
        /\ player_upgrades' = w.upgrades
        /\ next_state' = w.next_state
        /\ defeated_boss' = w.defeated
        /\ tick' = [NoTick EXCEPT !.decrements = w.decrements, !.hits = w.hits,
                                  !.body_hits = w.body_hits, !.shots = w.shots]
        /\ UNCHANGED <<current_stage, show_win_screen, selected_index, selected_character,
                       selected_character_index, pattern_registry, win_screens>>

NextLinger == LingerTick

SpecLinger == InitLinger /\ [][NextLinger]_vars /\ WF_vars(NextLinger)

\* A projectile of the boss is in the world: one that does not move (direction
\* (0, 0)) for still, one that moves otherwise
BossProjectileInFlight(still) ==
    \E k \in 1..Len(projectiles) :
        /\ projectiles[k].boss
        /\ still <=> (projectiles[k].dx = 0 /\ projectiles[k].dy = 0)

\* C39: every projectile of the boss is removed after finitely many ticks for
\* as long as the game stays in InGame, wherever the player stood when it was
\* fired, the boss's own position included: a projectile of the boss that is
\* in the world is later not in the world, or the game is leaving InGame.  (The
\* boss fires every 2 s and a moving projectile is gone within 1 s, so "a moving
\* projectile is in the world" is about one projectile at a time; the projectiles
\* that do not move all lie on the stationary boss.)
C39_BossProjectileRemoved ==
    \A still \in BOOLEAN :
        BossProjectileInFlight(still)
            ~> (~BossProjectileInFlight(still) \/ next_state # "Unchanged")

====
